---- MODULE Spec2Model ----
(***************************************************************************)
(* A model of the Sethboy Game Boy emulator core: the memory bus (Ram),    *)
(* the timer, the PPU mode machine with its tile fetcher, the SM83 CPU     *)
(* interpreter and the Emulator orchestrator.                              *)
(*                                                                         *)
(* The machine is carried through the operators as one record `s` with     *)
(* the fields of the variables below.  A Rust panic is modelled by the     *)
(* field err: once it is set every later step of the same tick is skipped  *)
(* (the stack unwinds) and no further tick is taken (the process ends).    *)
(* The 64 KiB array mem, each 16 KiB bank and the framebuffer are kept as  *)
(* functions on the set of their non-zero cells (every other cell is 0).   *)
(***************************************************************************)
EXTENDS Integers, Sequences, FiniteSets, TLC

VARIABLES
    mem,          \* Ram.mem: [u8; 0x10000]
    banks,        \* Ram.banks: Vec<[u8; 0x4000]>
    active_bank,  \* Ram.active_bank
    cpu,          \* Cpu
    timer,        \* Timer (its 16-bit counter)
    ppu,          \* Ppu (counter, mode, fetcher)
    serial,       \* the bytes written to stdout
    debug_mode,   \* Emulator.debug_mode
    breakpoints,  \* Emulator.breakpoints
    stdin,        \* the lines of standard input not read yet, end of file after them
    stage,        \* where the process stands: "tick" ahead of Emulator::tick, "debug"
                  \* in the debugger waiting for a line, and the steps of main's loop
    err,          \* how the process ended: the panic message or Exit0, NoErr while it runs
    checked,      \* build profile: TRUE when integer overflow panics (debug)
    ret,          \* the value returned by the last tick
    last,         \* the last operation and its inputs (observation only)
    hist          \* running counts of dots and events (observation only)

vars == <<mem, banks, active_bank, cpu, timer, ppu, serial, debug_mode, breakpoints, stdin, stage,
          err, checked, ret, last, hist>>

NoErr == ""

-----------------------------------------------------------------------------
(* Register addresses and screen size (emulator/constants.rs).             *)

SB == \hFF01
SC == \hFF02
DIV == \hFF04
TIMA == \hFF05
TMA == \hFF06
TAC == \hFF07
IF_REG == \hFF0F
LCDC == \hFF40
SCY == \hFF42
SCX == \hFF43
LY == \hFF44
DMA == \hFF46
IE == \hFFFF
SCRN_X == 160
SCRN_Y == 144

-----------------------------------------------------------------------------
(* Bit arithmetic on naturals.                                             *)

Pow2(n) == 2 ^ n

Bit(x, n) == (x \div Pow2(n)) % 2

\* the operands are at most 16 bits wide; bit i of the result is combined
\* from bit i of x and of y
AndBit(x, y, i) == Bit(x, i) * Bit(y, i) * Pow2(i)
OrBit(x, y, i) == (IF Bit(x, i) + Bit(y, i) > 0 THEN 1 ELSE 0) * Pow2(i)
XorBit(x, y, i) == ((Bit(x, i) + Bit(y, i)) % 2) * Pow2(i)

BitAnd(x, y) ==
    AndBit(x, y, 0) + AndBit(x, y, 1) + AndBit(x, y, 2) + AndBit(x, y, 3)
      + AndBit(x, y, 4) + AndBit(x, y, 5) + AndBit(x, y, 6) + AndBit(x, y, 7)
      + AndBit(x, y, 8) + AndBit(x, y, 9) + AndBit(x, y, 10) + AndBit(x, y, 11)
      + AndBit(x, y, 12) + AndBit(x, y, 13) + AndBit(x, y, 14) + AndBit(x, y, 15)

BitOr(x, y) ==
    OrBit(x, y, 0) + OrBit(x, y, 1) + OrBit(x, y, 2) + OrBit(x, y, 3)
      + OrBit(x, y, 4) + OrBit(x, y, 5) + OrBit(x, y, 6) + OrBit(x, y, 7)
      + OrBit(x, y, 8) + OrBit(x, y, 9) + OrBit(x, y, 10) + OrBit(x, y, 11)
      + OrBit(x, y, 12) + OrBit(x, y, 13) + OrBit(x, y, 14) + OrBit(x, y, 15)

BitXor(x, y) ==
    XorBit(x, y, 0) + XorBit(x, y, 1) + XorBit(x, y, 2) + XorBit(x, y, 3)
      + XorBit(x, y, 4) + XorBit(x, y, 5) + XorBit(x, y, 6) + XorBit(x, y, 7)
      + XorBit(x, y, 8) + XorBit(x, y, 9) + XorBit(x, y, 10) + XorBit(x, y, 11)
      + XorBit(x, y, 12) + XorBit(x, y, 13) + XorBit(x, y, 14) + XorBit(x, y, 15)

\* !x on a u8
Not8(x) == 255 - x

\* u8::trailing_zeros (8 for 0)
TrailingZeros(x) ==
    IF x = 0 THEN 8
    ELSE CHOOSE n \in 0 .. 7 : Bit(x, n) = 1 /\ x % Pow2(n) = 0

\* x as i8, for a u8
AsI8(x) == IF x >= 128 THEN x - 256 ELSE x

Wrap8(x) == x % 256
Wrap16(x) == x % 65536

-----------------------------------------------------------------------------
(* Sparse byte arrays: a function on the non-zero cells.                   *)

ArrGet(m, a) == IF a \in DOMAIN m THEN m[a] ELSE 0

ArrSet(m, a, v) ==
    IF v = 0
    THEN [x \in (DOMAIN m) \ {a} |-> m[x]]
    ELSE [x \in (DOMAIN m) \cup {a} |-> IF x = a THEN v ELSE m[x]]

EmptyArr == [x \in {} |-> 0]

\* the array m with the cells of `cells` (address -> byte) stored over it
Poke(m, cells) ==
    [x \in {a \in (DOMAIN m) \cup (DOMAIN cells) :
                (IF a \in DOMAIN cells THEN cells[a] ELSE m[a]) # 0}
        |-> IF x \in DOMAIN cells THEN cells[x] ELSE m[x]]

\* the value bound to a name for the rest of a computation: F applied to it
Then(val, F(_)) == F(val)

Panic(s, msg) == IF s.err # NoErr THEN s ELSE [s EXCEPT !.err = msg]

-----------------------------------------------------------------------------
(* Ram (emulator/ram.rs).                                                  *)

InBankWindow(i) == i >= \h4000 /\ i < \h8000
\* the echo range of the reads, one address short
InEcho_off(i) == i >= \hE000 /\ i < \hFDFF

\* (0xE000..=0xFDFF).contains(&i)
InEcho(i) == i >= \hE000 /\ i <= \hFDFF

\* self.banks[self.active_bank] exists
BankLoaded(s) == s.active_bank < Len(s.banks)

\* impl CpuBus for Ram: fn read.  The value; it panics (index out of bounds)
\* exactly when CpuBus_read_panics.
CpuBus_read_panics(s, i) == InBankWindow(i) /\ ~BankLoaded(s)

CpuBus_read(s, i) ==
    IF InBankWindow(i) THEN ArrGet(s.banks[s.active_bank + 1], i - \h4000)
    ELSE IF InEcho(i) THEN ArrGet(s.mem, i - \h2000)
    ELSE ArrGet(s.mem, i)

\* the bank number taken as the index
BankIndex_off(val) == val % 32

\* match val & 0b11111 { 0 => 0, b => b - 1 }
BankIndex(val) == IF val % 32 = 0 THEN 0 ELSE (val % 32) - 1

\* impl CpuBus for Ram: fn write
CpuBus_write(s, i, val) ==
    IF s.err # NoErr THEN s
    ELSE IF i < \h2000 THEN Panic(s, "RAM enable register not implemented!")
    ELSE IF i < \h4000 THEN [s EXCEPT !.active_bank = BankIndex(val)]
    ELSE IF i < \h6000 THEN Panic(s, "RAM bank number register not implemented!")
    ELSE IF i < \h8000 THEN Panic(s, "Mode select register not implemented!")
    ELSE IF i >= \hE000 /\ i < \hFE00 THEN [s EXCEPT !.mem = ArrSet(@, i - \h2000, val)]
    ELSE [s EXCEPT !.mem = ArrSet(@, i, val)]

\* impl Ram: fn read
Ram_read_panics(s, i) == InBankWindow(i) /\ ~BankLoaded(s)

Ram_read(s, i) ==
    IF InBankWindow(i) THEN ArrGet(s.banks[s.active_bank + 1], i - \h4000)
    ELSE IF InEcho(i) THEN ArrGet(s.mem, i - \h2000)
    ELSE ArrGet(s.mem, i)

\* a store below 0x2000 taken as a store to memory
Ram_write_off(s, i, val) ==
    IF s.err # NoErr THEN s
    ELSE IF i < \h2000 THEN [s EXCEPT !.mem = ArrSet(@, i, val)]
    ELSE IF i < \h4000 THEN [s EXCEPT !.active_bank = BankIndex(val)]
    ELSE IF i = DMA THEN Panic(s, "OAM DMA transfer not implemented!")
    ELSE IF i < \h6000 THEN Panic(s, "RAM bank number register not implemented!")
    ELSE IF i < \h8000 THEN Panic(s, "Mode select register not implemented!")
    ELSE IF i >= \hE000 /\ i < \hFE00 THEN [s EXCEPT !.mem = ArrSet(@, i - \h2000, val)]
    ELSE [s EXCEPT !.mem = ArrSet(@, i, val)]

\* impl Ram: fn write
Ram_write(s, i, val) ==
    IF s.err # NoErr THEN s
    ELSE IF i < \h2000 THEN Panic(s, "RAM enable register not implemented!")
    ELSE IF i < \h4000 THEN [s EXCEPT !.active_bank = BankIndex(val)]
    ELSE IF i = DMA THEN Panic(s, "OAM DMA transfer not implemented!")
    ELSE IF i < \h6000 THEN Panic(s, "RAM bank number register not implemented!")
    ELSE IF i < \h8000 THEN Panic(s, "Mode select register not implemented!")
    ELSE IF i >= \hE000 /\ i < \hFE00 THEN [s EXCEPT !.mem = ArrSet(@, i - \h2000, val)]
    ELSE [s EXCEPT !.mem = ArrSet(@, i, val)]

\* Ram::new: mem is zero except LCDC and IF; no bank; active_bank 0
Ram_new_mem == (LCDC :> \h91) @@ (IF_REG :> \hE1)

\* Ram::load on an image given as its 16 KiB chunks (a partial tail chunk is
\* dropped by the reader and so never part of `chunks`): the first chunk is
\* copied over mem[0..0x4000), every further chunk becomes a bank.
Ram_load_mem(m, chunks) ==
    [x \in ((DOMAIN m) \ (0 .. \h3FFF)) \cup DOMAIN chunks[1] |->
        IF x \in DOMAIN chunks[1] THEN chunks[1][x] ELSE m[x]]

Ram_load_banks(bs, chunks) == bs \o Tail(chunks)

-----------------------------------------------------------------------------
(* Timer (emulator/timer.rs).                                              *)

Timer_new == [counter |-> 0]

\* the selection with the bit of tac & 0b11 = 1 one place up
TimerBit_off(tac) ==
    CASE tac % 4 = 0 -> 10
      [] tac % 4 = 1 -> 5
      [] tac % 4 = 2 -> 6
      [] tac % 4 = 3 -> 8

\* the bit of the counter that tac & 0b11 selects
TimerBit(tac) ==
    CASE tac % 4 = 0 -> 10
      [] tac % 4 = 1 -> 4
      [] tac % 4 = 2 -> 6
      [] tac % 4 = 3 -> 8

\* the pass that counts only a fall of the selected bit
Timer_step_falling(t, tma, mask) ==
    LET inc == Wrap16(t.counter + 1)
    IN  IF BitAnd(t.counter, mask) > 0 /\ BitAnd(inc, mask) = 0
        THEN IF t.tima = 255
             THEN [t EXCEPT !.tima = tma, !.if_ = BitOr(@, 4), !.counter = inc]
             ELSE [t EXCEPT !.tima = @ + 1, !.counter = inc]
        ELSE [t EXCEPT !.counter = inc]

\* the pass that does not raise the interrupt on overflow
Timer_step_silent(t, tma, mask) ==
    LET inc == Wrap16(t.counter + 1)
    IN  IF BitAnd(BitXor(inc, t.counter), mask) > 0
        THEN IF t.tima = 255
             THEN [t EXCEPT !.tima = tma, !.counter = inc]
             ELSE [t EXCEPT !.tima = @ + 1, !.counter = inc]
        ELSE [t EXCEPT !.counter = inc]

\* the pass that lets TIMA wrap to zero on overflow
Timer_step_wrap(t, tma, mask) ==
    LET inc == Wrap16(t.counter + 1)
    IN  IF BitAnd(BitXor(inc, t.counter), mask) > 0
        THEN IF t.tima = 255
             THEN [t EXCEPT !.tima = 0, !.if_ = BitOr(@, 4), !.counter = inc]
             ELSE [t EXCEPT !.tima = @ + 1, !.counter = inc]
        ELSE [t EXCEPT !.counter = inc]

\* one pass of the body of `for _ in 0..t_cyc`; t = [counter, div, tima, if_]
Timer_step(t, tma, mask) ==
    LET inc == Wrap16(t.counter + 1)
    IN  IF BitAnd(BitXor(inc, t.counter), mask) > 0
        THEN IF t.tima = 255
             THEN [t EXCEPT !.tima = tma, !.if_ = BitOr(@, 4), !.counter = inc]
             ELSE [t EXCEPT !.tima = @ + 1, !.counter = inc]
        ELSE [t EXCEPT !.counter = inc]

\* `for _ in 0..t_cyc`: n passes of Timer_step, run as two halves so that the
\* evaluation stays shallow
RECURSIVE Timer_loop(_, _, _, _)
Timer_loop(t, tma, mask, n) ==
    IF n = 0 THEN t
    ELSE IF n = 1 THEN Timer_step(t, tma, mask)
    ELSE Then(Timer_loop(t, tma, mask, n \div 2), LAMBDA half :
            IF half.counter >= 0
            THEN Timer_loop(half, tma, mask, n - (n \div 2))
            ELSE half)

\* Timer::tick; the result holds the new counter and the three out-parameters
Timer_tick(counter, div, tima, tma, tac, if_, t_cyc) ==
    Then(IF BitAnd(tac, 4) > 0
         THEN Timer_loop([counter |-> counter, div |-> div, tima |-> tima, if_ |-> if_],
                         tma, Pow2(TimerBit(tac)), t_cyc)
         ELSE [counter |-> Wrap16(counter + t_cyc), div |-> div, tima |-> tima, if_ |-> if_],
         LAMBDA t1 : [t1 EXCEPT !.div = t1.counter \div 256])

-----------------------------------------------------------------------------
(* PPU (emulator/ppu.rs).                                                  *)

SCANLINE_DOTS == 456

AsI16(x) == IF x >= 32768 THEN x - 65536 ELSE x
\* i16::wrapping_add followed by `as u16`
WrapAddI16AsU16(a, b) == (a + b) % 65536

Fetcher_new ==
    [framebuffer |-> EmptyArr, x |-> 0, draw_x |-> 0, objects |-> <<>>,
     bg_fifo |-> <<>>, obj_fifo |-> <<>>, state |-> "GetTile", delay |-> 0,
     index |-> 0, tile |-> <<0, 0>>]

Ppu_new == [counter |-> 0, mode |-> "Mode0", fetcher |-> Fetcher_new]

\* the address of the tile row: 2 * row + (0x8000 or 0x9000 method)
TileRowAddr(lcdc, index, row) ==
    2 * row
      + (IF BitAnd(lcdc, 16) > 0
         THEN \h8000 + index * 16
         ELSE WrapAddI16AsU16(AsI16(\h9000), AsI8(index) * 16))

\* the pixel of bit `bit` of a tile row
TilePixel(tile, bit) == Bit(tile[1], bit) + 2 * Bit(tile[2], bit)

\* the pixels of the tile appended from bit 7 down to bit start
PushBits_off(f, start) ==
    [f EXCEPT !.bg_fifo = [k \in 1 .. (8 - start) |-> TilePixel(f.tile, 8 - k)],
              !.x = @ + (8 - start)]

\* `for bit in start..8 { bg_fifo.push(pixel); x += 1 }` on an empty bg_fifo:
\* the pixels of bits start, start + 1, .. 7 are appended in that order
PushBits(f, start) ==
    [f EXCEPT !.bg_fifo = [k \in 1 .. (8 - start) |-> TilePixel(f.tile, start + k - 1)],
              !.x = @ + (8 - start)]

\* Fetcher::tick_fetcher, after its four register reads
Fetcher_tick_state(s, ly, lcdc, scy, scx) ==
    LET f == s.ppu.fetcher
    IN  CASE f.state = "GetTile" ->
               IF scx + f.x > 255 /\ s.checked
               THEN Panic(s, "attempt to add with overflow")
               ELSE
               LET base == IF BitAnd(lcdc, 8) = 0 THEN \h9800 ELSE \h9C00
                   tile_x == (Wrap8(scx + f.x) \div 8) % 32
                   tile_y == Wrap8(ly + scy) \div 8
               IN  [s EXCEPT !.ppu.fetcher.index = Ram_read(s, base + tile_y * 32 + tile_x),
                             !.ppu.fetcher.state = "GetTileDataLow",
                             !.ppu.fetcher.delay = 1]
          [] f.state = "GetTileDataLow" ->
               [s EXCEPT !.ppu.fetcher.tile =
                             <<Ram_read(s, TileRowAddr(lcdc, f.index, Wrap8(ly + scy) % 8)),
                               f.tile[2]>>,
                         !.ppu.fetcher.state = "GetTileDataHigh",
                         !.ppu.fetcher.delay = 1]
          [] f.state = "GetTileDataHigh" ->
               [s EXCEPT !.ppu.fetcher.tile =
                             <<f.tile[1],
                               Ram_read(s, TileRowAddr(lcdc, f.index, Wrap8(ly + scy) % 8) + 1)>>,
                         !.ppu.fetcher.state = "Push",
                         !.ppu.fetcher.delay = 1]
          [] f.state = "Push" ->
               IF f.bg_fifo = <<>>
               THEN [s EXCEPT !.ppu.fetcher =
                        [PushBits(f, IF f.x = 0 THEN scx % 8 ELSE 0) EXCEPT !.state = "GetTile"]]
               ELSE s

\* Fetcher::tick_fetcher
Fetcher_tick_fetcher(s) ==
    IF s.err # NoErr THEN s
    ELSE Fetcher_tick_state(s, Ram_read(s, LY), Ram_read(s, LCDC), Ram_read(s, SCY),
                            Ram_read(s, SCX))

\* Fetcher::tick, after the fetcher step: one pixel is popped from the end of
\* bg_fifo (0 when it is empty) and stored at framebuffer[LY * SCRN_X + draw_x]
Fetcher_draw(s) ==
    IF s.err # NoErr THEN s
    ELSE IF s.ppu.fetcher.x = 0 \/ s.ppu.fetcher.draw_x >= SCRN_X THEN s
    ELSE
    LET f == s.ppu.fetcher
        n == Len(f.bg_fifo)
        pixel == IF n = 0 THEN 0 ELSE f.bg_fifo[n]
        rest == IF n = 0 THEN <<>> ELSE SubSeq(f.bg_fifo, 1, n - 1)
        at == Ram_read(s, LY) * SCRN_X + f.draw_x
    IN  IF at >= SCRN_X * SCRN_Y
        THEN Panic([s EXCEPT !.ppu.fetcher.bg_fifo = rest], "index out of bounds")
        ELSE [s EXCEPT !.ppu.fetcher.bg_fifo = rest,
                       !.ppu.fetcher.framebuffer = ArrSet(@, at, pixel),
                       !.ppu.fetcher.draw_x = @ + 1]

\* Fetcher::tick
Fetcher_tick(s) ==
    IF s.err # NoErr THEN s
    ELSE Fetcher_draw(IF s.ppu.fetcher.delay = 0
                      THEN Fetcher_tick_fetcher(s)
                      ELSE [s EXCEPT !.ppu.fetcher.delay = @ - 1])

\* Fetcher::reset
Fetcher_reset(f) ==
    [f EXCEPT !.x = 0, !.draw_x = 0, !.bg_fifo = <<>>, !.obj_fifo = <<>>,
              !.state = "GetTile", !.delay = 0]

\* impl Ord for Object: cmp as -1, 0, 1
Object_cmp(o1, o2) ==
    IF o1.x # o2.x THEN (IF o1.x < o2.x THEN -1 ELSE 1)
    ELSE IF o1.index # o2.index THEN (IF o1.index < o2.index THEN -1 ELSE 1)
    ELSE 0

\* element j of objs comes before element i after sort_by(|o1, o2| o2.cmp(o1)),
\* a stable sort: it compares greater, or equal and it is earlier in the list
SortsBefore(objs, j, i) ==
    \/ Object_cmp(objs[j], objs[i]) > 0
    \/ Object_cmp(objs[j], objs[i]) = 0 /\ j < i

\* objects.sort_by(|o1, o2| o2.cmp(o1))
SortObjects(objs) ==
    [r \in 1 .. Len(objs) |->
        objs[CHOOSE i \in 1 .. Len(objs) :
                 1 + Cardinality({j \in 1 .. Len(objs) : SortsBefore(objs, j, i)}) = r]]

\* the OAM entry k: its four bytes
OamObject(s, k) ==
    [y |-> Ram_read(s, \hFE00 + 4 * k), x |-> Ram_read(s, \hFE00 + 4 * k + 1),
     index |-> Ram_read(s, \hFE00 + 4 * k + 2), flags |-> Ram_read(s, \hFE00 + 4 * k + 3)]

\* (y..(y + obj_height)).contains(&ly), the sum wrapped to a byte
OamHit(s, k, ly, obj_height) ==
    /\ Ram_read(s, \hFE00 + 4 * k) <= ly
    /\ ly < Wrap8(Ram_read(s, \hFE00 + 4 * k) + obj_height)

\* the entries of `set` in increasing order
Ascending(set) ==
    [r \in 1 .. Cardinality(set) |->
        CHOOSE k \in set : Cardinality({j \in set : j <= k}) = r]

\* the last OAM entry the loop visits: the tenth hit, or entry 39
OamStop(hits) == IF Len(hits) >= 10 THEN hits[10] ELSE 39

\* the entries, among those visited, whose y + obj_height overflows a byte
OamOverflows(s, stop, obj_height) ==
    {k \in 0 .. stop : Ram_read(s, \hFE00 + 4 * k) + obj_height > 255}

\* Ppu::oam_scan from the hits in OAM order, the last visited entry and the
\* visited entries that overflow: with overflow checks the scan panics at the
\* first of these, after pushing the hits before it
Ppu_oam_collect(s, hits, bad) ==
    IF s.checked /\ bad # {}
    THEN Panic([s EXCEPT !.ppu.fetcher.objects =
                   [r \in 1 .. Cardinality({i \in 1 .. Len(hits) : \A b \in bad : hits[i] < b})
                       |-> OamObject(s, hits[r])]],
               "attempt to add with overflow")
    ELSE [s EXCEPT !.ppu.fetcher.objects =
             SortObjects([r \in 1 .. (IF Len(hits) >= 10 THEN 10 ELSE Len(hits))
                             |-> OamObject(s, hits[r])])]

Ppu_oam_hits(s, hits, obj_height) ==
    Ppu_oam_collect(s, hits, OamOverflows(s, OamStop(hits), obj_height))

\* Ppu::oam_scan.  The loop over the 40 OAM entries is given in closed form:
\* entry k is visited while fewer than ten objects were pushed; y + obj_height
\* is computed for every visited entry and overflows u8 when above 255.
Ppu_oam_scan_with(s, ly, obj_height) ==
    Ppu_oam_hits(s, Ascending({k \in 0 .. 39 : OamHit(s, k, ly, obj_height)}), obj_height)

Ppu_oam_scan(s) ==
    IF s.err # NoErr THEN s
    ELSE Ppu_oam_scan_with(s, Ram_read(s, LY),
                           IF BitAnd(Ram_read(s, LCDC), 4) > 0 THEN 16 ELSE 8)

\* the closure next_tile of Ppu::_draw_scanline at map column tile_col: the
\* two bytes of the row of the tile shown there
Ppu_next_tile(s, ly, lcdc, scy, tile_col) ==
    Then(Ram_read(s, (IF BitAnd(lcdc, 8) = 0 THEN \h9800 ELSE \h9C00)
                        + (Wrap8(ly + scy) \div 8) * 32 + tile_col),
         LAMBDA index :
            <<Ram_read(s, TileRowAddr(lcdc, index, Wrap8(ly + scy) % 8)),
              Ram_read(s, TileRowAddr(lcdc, index, Wrap8(ly + scy) % 8) + 1)>>)

\* Ppu::_draw_scanline draws 21 tiles: the first with the bits
\* 7 .. scx % 8, nineteen with the bits 7 .. 0, the last with the bits
\* scx % 8 - 1 .. 0.  The tile that holds position x of the row, counted
\* from 0, and the bit of it drawn there:
DrawnTile(scx, x) ==
    IF x < 8 - (scx % 8) THEN 0 ELSE 1 + ((x - (8 - (scx % 8))) \div 8)
DrawnBit(scx, x) ==
    IF x < 8 - (scx % 8) THEN 7 - x
    ELSE IF DrawnTile(scx, x) < 20 THEN 7 - ((x - (8 - (scx % 8))) % 8)
    ELSE (scx % 8) - 1 - ((x - (8 - (scx % 8))) % 8)

\* the colour Ppu::_draw_scanline stores at position x of row ly
DrawnPixel(s, ly, lcdc, scy, scx, x) ==
    TilePixel(Ppu_next_tile(s, ly, lcdc, scy, ((scx \div 8) + DrawnTile(scx, x)) % 32),
              DrawnBit(scx, x))

\* Ppu::_draw_scanline, after its four register reads
Ppu_draw_scanline_with(s, ly, lcdc, scy, scx) ==
    IF ly * SCRN_X >= SCRN_X * SCRN_Y THEN Panic(s, "index out of bounds")
    ELSE [s EXCEPT !.ppu.fetcher.framebuffer =
             Poke(@, [a \in (ly * SCRN_X) .. (ly * SCRN_X + SCRN_X - 1)
                         |-> DrawnPixel(s, ly, lcdc, scy, scx, a - ly * SCRN_X)])]

\* Ppu::_draw_scanline: the row LY of the framebuffer drawn at once
Ppu_draw_scanline(s) ==
    IF s.err # NoErr THEN s
    ELSE Ppu_draw_scanline_with(s, Ram_read(s, LY), Ram_read(s, LCDC), Ram_read(s, SCY),
                                Ram_read(s, SCX))

\* the VBlank lines taken as over one line early
LastLineDone_off(ly) == ly > 152

\* `if ly > 153`: the VBlank lines are over
LastLineDone(ly) == ly > 153

\* VBlank entered one scanline late
Ppu_line_end_mode0_off(s, ly) ==
    IF ly < 145
    THEN [s |-> Ppu_oam_scan([s EXCEPT !.ppu.counter = 0, !.ppu.mode = "Mode2"]), ly |-> ly]
    ELSE [s |-> Ram_write([s EXCEPT !.ppu.counter = 0, !.ppu.mode = "Mode1"],
                          IF_REG, BitOr(Ram_read(s, IF_REG), 1)),
          ly |-> ly]

\* VBlank entered with IF overwritten by bit 0 alone
Ppu_line_end_mode0_lost(s, ly) ==
    IF ly < 144
    THEN [s |-> Ppu_oam_scan([s EXCEPT !.ppu.counter = 0, !.ppu.mode = "Mode2"]), ly |-> ly]
    ELSE [s |-> Ram_write([s EXCEPT !.ppu.counter = 0, !.ppu.mode = "Mode1"], IF_REG, 1),
          ly |-> ly]

\* the end of a scanline in Mode0, ly already incremented
Ppu_line_end_mode0(s, ly) ==
    IF ly < 144
    THEN [s |-> Ppu_oam_scan([s EXCEPT !.ppu.counter = 0, !.ppu.mode = "Mode2"]), ly |-> ly]
    ELSE [s |-> Ram_write([s EXCEPT !.ppu.counter = 0, !.ppu.mode = "Mode1"],
                          IF_REG, BitOr(Ram_read(s, IF_REG), 1)),
          ly |-> ly]

\* the end of a scanline in Mode1, ly already incremented
Ppu_line_end_mode1(s, ly) ==
    IF LastLineDone(ly)
    THEN [s |-> Ppu_oam_scan([s EXCEPT !.ppu.counter = 0, !.ppu.mode = "Mode2"]), ly |-> 0]
    ELSE [s |-> [s EXCEPT !.ppu.counter = 0], ly |-> ly]

\* Mode3 after Fetcher::tick: `if self.fetcher.x as usize >= SCRN_X`
Ppu_mode3_end(s, ly) ==
    IF s.err = NoErr /\ s.ppu.fetcher.x >= SCRN_X
    THEN [s |-> [s EXCEPT !.ppu.mode = "Mode0"], ly |-> ly]
    ELSE [s |-> s, ly |-> ly]

\* one pass of the body of `for _ in 0..dots` of Ppu::tick; the local ly is
\* carried in the result as [s, ly]
Ppu_dot(s, ly) ==
    IF s.err # NoErr THEN [s |-> s, ly |-> ly]
    ELSE
    CASE s.ppu.mode \in {"Mode0", "Mode1"} ->
           IF s.ppu.counter + 1 = SCANLINE_DOTS
           THEN IF ly = 255 /\ s.checked
                THEN [s |-> Panic([s EXCEPT !.ppu.counter = 0], "attempt to add with overflow"),
                      ly |-> ly]
                ELSE IF s.ppu.mode = "Mode0"
                THEN Ppu_line_end_mode0(s, Wrap8(ly + 1))
                ELSE Ppu_line_end_mode1(s, Wrap8(ly + 1))
           ELSE [s |-> [s EXCEPT !.ppu.counter = @ + 1], ly |-> ly]
      [] s.ppu.mode = "Mode2" ->
           IF s.ppu.counter + 1 = 80
           THEN [s |-> [s EXCEPT !.ppu.counter = @ + 1, !.ppu.mode = "Mode3",
                                 !.ppu.fetcher = Fetcher_reset(@)],
                 ly |-> ly]
           ELSE [s |-> [s EXCEPT !.ppu.counter = @ + 1], ly |-> ly]
      [] s.ppu.mode = "Mode3" ->
           Ppu_mode3_end(Fetcher_tick([s EXCEPT !.ppu.counter = @ + 1]), ly)

\* `for _ in 0..dots`: n passes of Ppu_dot, run as two halves so that the
\* evaluation stays shallow
RECURSIVE Ppu_loop(_, _, _)
Ppu_loop(s, ly, n) ==
    IF n = 0 THEN [s |-> s, ly |-> ly]
    ELSE IF n = 1 THEN Ppu_dot(s, ly)
    ELSE Then(Ppu_loop(s, ly, n \div 2), LAMBDA half :
            IF half.s.err = NoErr
            THEN Ppu_loop(half.s, half.ly, n - (n \div 2))
            ELSE half)

\* the LCD taken as on by LCDC bit 0
Ppu_tick_off(s, dots) ==
    IF s.err # NoErr THEN s
    ELSE IF BitAnd(Ram_read(s, LCDC), 1) = 0 THEN s
    ELSE Then(Ppu_loop(s, Ram_read(s, LY), dots), LAMBDA r : Ram_write(r.s, LY, r.ly))

\* Ppu::tick
Ppu_tick(s, dots) ==
    IF s.err # NoErr THEN s
    ELSE IF BitAnd(Ram_read(s, LCDC), 128) = 0 THEN s
    ELSE Then(Ppu_loop(s, Ram_read(s, LY), dots), LAMBDA r : Ram_write(r.s, LY, r.ly))

-----------------------------------------------------------------------------
(* CPU (emulator/cpu.rs).                                                  *)

\* impl From<u8> for Flag
Flag_from_u8(val) ==
    [zero |-> BitAnd(val, 128) > 0, sub |-> BitAnd(val, 64) > 0,
     half_carry |-> BitAnd(val, 32) > 0, carry |-> BitAnd(val, 16) > 0]

\* the flag byte with the carry also in bit 0
U8_from_Flag_off(f) ==
    BitOr(BitOr(IF f.zero THEN 128 ELSE 0, IF f.sub THEN 64 ELSE 0),
          BitOr(IF f.half_carry THEN 32 ELSE 0, IF f.carry THEN 17 ELSE 0))

\* impl From<Flag> for u8
U8_from_Flag(f) ==
    BitOr(BitOr(IF f.zero THEN 128 ELSE 0, IF f.sub THEN 64 ELSE 0),
          BitOr(IF f.half_carry THEN 32 ELSE 0, IF f.carry THEN 16 ELSE 0))

\* Cpu::new
Cpu_new ==
    [pc |-> \h100, sp |-> \hFFFE, a |-> 1, b |-> 0, c |-> \h13, d |-> 0, e |-> \hD8,
     f |-> [zero |-> TRUE, sub |-> FALSE, half_carry |-> TRUE, carry |-> TRUE],
     h |-> 1, l |-> \h4D, ime |-> "Disabled", halted |-> FALSE, stopped |-> FALSE]

\* a bus read by the CPU: the byte is left in s.v; an access to a bank that is
\* not loaded panics (index out of bounds)
Cpu_read(s, i) ==
    IF s.err # NoErr THEN s
    ELSE IF CpuBus_read_panics(s, i) THEN Panic(s, "index out of bounds")
    ELSE [s EXCEPT !.v = CpuBus_read(s, i)]

\* the CPU record replaced, unless the tick has panicked
SetCpu(s, c) == IF s.err # NoErr THEN s ELSE [s EXCEPT !.cpu = c]

\* `return n`
Return(s, n) == IF s.err # NoErr THEN s ELSE [s EXCEPT !.cyc = n]

\* a u16 field incremented or decremented by n: a panic when it leaves 0..0xFFFF
\* in a build with overflow checks, a wrap otherwise
Overflows16(s, x) == s.checked /\ (x < 0 \/ x > 65535)

\* Cpu::fetch: the byte at pc in s.v, pc += 1
Cpu_fetch(s) ==
    Then(Cpu_read(s, s.cpu.pc), LAMBDA s1 :
        IF s1.err # NoErr THEN s1
        ELSE IF Overflows16(s1, s1.cpu.pc + 1) THEN Panic(s1, "attempt to add with overflow")
        ELSE [s1 EXCEPT !.cpu.pc = Wrap16(@ + 1)])

\* Cpu::fetch16: low byte first; the word in s.v
Cpu_fetch16(s) ==
    Then(Cpu_fetch(s), LAMBDA s1 :
    Then(Cpu_fetch(s1), LAMBDA s2 :
        IF s2.err # NoErr THEN s2 ELSE [s2 EXCEPT !.v = BitOr(s1.v, s2.v * 256)]))

\* Cpu::pop: the byte at sp in s.v, sp += 1
Cpu_pop(s) ==
    Then(Cpu_read(s, s.cpu.sp), LAMBDA s1 :
        IF s1.err # NoErr THEN s1
        ELSE IF Overflows16(s1, s1.cpu.sp + 1) THEN Panic(s1, "attempt to add with overflow")
        ELSE [s1 EXCEPT !.cpu.sp = Wrap16(@ + 1)])

\* Cpu::pop16: low byte first; the word in s.v
Cpu_pop16(s) ==
    Then(Cpu_pop(s), LAMBDA s1 :
    Then(Cpu_pop(s1), LAMBDA s2 :
        IF s2.err # NoErr THEN s2 ELSE [s2 EXCEPT !.v = BitOr(s1.v, s2.v * 256)]))

\* Cpu::push: sp -= 1, then the byte is written at sp
Cpu_push(s, val) ==
    IF s.err # NoErr THEN s
    ELSE IF Overflows16(s, s.cpu.sp - 1) THEN Panic(s, "attempt to subtract with overflow")
    ELSE CpuBus_write([s EXCEPT !.cpu.sp = Wrap16(@ + 65535)], Wrap16(s.cpu.sp + 65535), val)

\* the word pushed low byte first
Cpu_push16_off(s, val) == Cpu_push(Cpu_push(s, val % 256), val \div 256)

\* Cpu::push16: high byte first
Cpu_push16(s, val) == Cpu_push(Cpu_push(s, val \div 256), val % 256)

\* Cpu::get_r8 (r = 6 is never asked for: every caller handles [hl] itself)
Cpu_get_r8(c, r) ==
    CASE r = 0 -> c.b
      [] r = 1 -> c.c
      [] r = 2 -> c.d
      [] r = 3 -> c.e
      [] r = 4 -> c.h
      [] r = 5 -> c.l
      [] r = 7 -> c.a

\* an assignment through the reference Cpu::get_r8 returns
Cpu_set_r8(c, r, val) ==
    CASE r = 0 -> [c EXCEPT !.b = val]
      [] r = 1 -> [c EXCEPT !.c = val]
      [] r = 2 -> [c EXCEPT !.d = val]
      [] r = 3 -> [c EXCEPT !.e = val]
      [] r = 4 -> [c EXCEPT !.h = val]
      [] r = 5 -> [c EXCEPT !.l = val]
      [] r = 7 -> [c EXCEPT !.a = val]

\* Cpu::get_r16
Cpu_get_r16(c, r) ==
    CASE r = 0 -> BitOr(c.c, c.b * 256)
      [] r = 1 -> BitOr(c.e, c.d * 256)
      [] r = 2 -> BitOr(c.l, c.h * 256)
      [] r = 3 -> c.sp

\* Cpu::set_r16
Cpu_set_r16(c, r, val) ==
    CASE r = 0 -> [c EXCEPT !.b = val \div 256, !.c = val % 256]
      [] r = 1 -> [c EXCEPT !.d = val \div 256, !.e = val % 256]
      [] r = 2 -> [c EXCEPT !.h = val \div 256, !.l = val % 256]
      [] r = 3 -> [c EXCEPT !.sp = val]

\* the condition NC taken for C
Cpu_cond_off(c, k) ==
    CASE k = 0 -> ~c.f.zero
      [] k = 1 -> c.f.zero
      [] k = 2 -> c.f.carry
      [] k = 3 -> c.f.carry

\* Cpu::cond
Cpu_cond(c, k) ==
    CASE k = 0 -> ~c.f.zero
      [] k = 1 -> c.f.zero
      [] k = 2 -> ~c.f.carry
      [] k = 3 -> c.f.carry

Flags(z, n, h, cy) == [zero |-> z, sub |-> n, half_carry |-> h, carry |-> cy]

CarryBit(c) == IF c.f.carry THEN 1 ELSE 0

\* (x as i16).wrapping_add(off as i16) as u16, for a u16 x and an i8 off
AddSigned16(x, off) == (x + off + 65536) % 65536

\* ---- the eight accumulator operations (block 2 and their n8 forms) ----

\* add a, r8 / add a, n8
Alu_add(c, r8) ==
    LET sum == c.a + r8
    IN  [c EXCEPT !.a = sum % 256,
                  !.f = Flags(sum % 256 = 0, FALSE, (r8 % 16) + (c.a % 16) > 15, sum > 255)]

\* adc, the half carry taken without the carry-in
Alu_adc_off(c, r8) ==
    LET carry == CarryBit(c)
        sum1 == (c.a + r8) % 256
        over1 == c.a + r8 > 255
        sum2 == (sum1 + carry) % 256
        over2 == sum1 + carry > 255
        halfover == (c.a % 16) + (r8 % 16) > 15
    IN  [c EXCEPT !.a = sum2,
                  !.f = Flags(sum2 = 0, FALSE, halfover, over1 \/ over2)]

\* adc a, r8 / adc a, n8
Alu_adc(c, r8) ==
    LET carry == CarryBit(c)
        sum1 == (c.a + r8) % 256
        over1 == c.a + r8 > 255
        sum2 == (sum1 + carry) % 256
        over2 == sum1 + carry > 255
        halfover == (c.a % 16) + (r8 % 16) + carry > 15
    IN  [c EXCEPT !.a = sum2,
                  !.f = Flags(sum2 = 0, FALSE, halfover, over1 \/ over2)]

\* sub a, r8 / sub a, n8
Alu_sub(c, r8) ==
    LET sum == (c.a - r8 + 256) % 256
    IN  [c EXCEPT !.a = sum,
                  !.f = Flags(sum = 0, TRUE, (c.a % 16) < (r8 % 16), c.a < r8)]

\* sbc, the carry taken from the first subtraction only
Alu_sbc_off(c, r8) ==
    LET carry == CarryBit(c)
        sum1 == (c.a - r8 + 256) % 256
        over1 == c.a < r8
        sum2 == (sum1 - carry + 256) % 256
        halfover == (c.a % 16) < (r8 % 16) + carry
    IN  [c EXCEPT !.a = sum2,
                  !.f = Flags(sum2 = 0, TRUE, halfover, over1)]

\* sbc a, r8 / sbc a, n8
Alu_sbc(c, r8) ==
    LET carry == CarryBit(c)
        sum1 == (c.a - r8 + 256) % 256
        over1 == c.a < r8
        sum2 == (sum1 - carry + 256) % 256
        over2 == sum1 < carry
        halfover == (c.a % 16) < (r8 % 16) + carry
    IN  [c EXCEPT !.a = sum2,
                  !.f = Flags(sum2 = 0, TRUE, halfover, over1 \/ over2)]

\* and, with H left clear
Alu_and_off(c, r8) ==
    LET res == BitAnd(c.a, r8)
    IN  [c EXCEPT !.a = res, !.f = Flags(res = 0, FALSE, FALSE, FALSE)]

\* and a, r8 / and a, n8
Alu_and(c, r8) ==
    LET res == BitAnd(c.a, r8)
    IN  [c EXCEPT !.a = res, !.f = Flags(res = 0, FALSE, TRUE, FALSE)]

\* xor a, r8 / xor a, n8
Alu_xor(c, r8) ==
    LET res == BitXor(c.a, r8)
    IN  [c EXCEPT !.a = res, !.f = Flags(res = 0, FALSE, FALSE, FALSE)]

\* or a, r8 / or a, n8
Alu_or(c, r8) ==
    LET res == BitOr(c.a, r8)
    IN  [c EXCEPT !.a = res, !.f = Flags(res = 0, FALSE, FALSE, FALSE)]

\* cp a, r8 / cp a, n8
Alu_cp(c, r8) ==
    LET sum == (c.a - r8 + 256) % 256
    IN  [c EXCEPT !.f = Flags(sum = 0, TRUE, (c.a % 16) < (r8 % 16), c.a < r8)]

\* `match (op >> 3) & 0b111` of block 2 (and of the n8 forms of block 3)
Alu(c, kind, r8) ==
    CASE kind = 0 -> Alu_add(c, r8)
      [] kind = 1 -> Alu_adc(c, r8)
      [] kind = 2 -> Alu_sub(c, r8)
      [] kind = 3 -> Alu_sbc(c, r8)
      [] kind = 4 -> Alu_and(c, r8)
      [] kind = 5 -> Alu_xor(c, r8)
      [] kind = 6 -> Alu_or(c, r8)
      [] kind = 7 -> Alu_cp(c, r8)

\* block 2: <alu> a, r8
Exec_block2(s, op) ==
    IF op % 8 = 6
    THEN Then(Cpu_read(s, Cpu_get_r16(s.cpu, 2)), LAMBDA s1 :
            Return(SetCpu(s1, Alu(s1.cpu, (op \div 8) % 8, s1.v)), 2))
    ELSE Return(SetCpu(s, Alu(s.cpu, (op \div 8) % 8, Cpu_get_r8(s.cpu, op % 8))), 1)

\* block 3: <alu> a, n8
Exec_alu_n8(s, op) ==
    Then(Cpu_fetch(s), LAMBDA s1 :
        Return(SetCpu(s1, Alu(s1.cpu, (op \div 8) % 8, s1.v)), 2))

\* ---- block 0 ----

\* inc r8, from the operand r8 on: the flags are set, then [hl] is stored
Exec_inc_r8_of(s, r, r8) ==
    Then(SetCpu(s, [(IF r = 6 THEN s.cpu ELSE Cpu_set_r8(s.cpu, r, (r8 + 1) % 256))
                       EXCEPT !.f.zero = ((r8 + 1) % 256 = 0), !.f.sub = FALSE,
                              !.f.half_carry = (r8 % 16 = 15)]), LAMBDA s2 :
        IF r = 6
        THEN Return(CpuBus_write(s2, Cpu_get_r16(s2.cpu, 2), (r8 + 1) % 256), 3)
        ELSE Return(s2, 1))

\* inc r8
Exec_inc_r8(s, op) ==
    IF (op \div 8) % 8 = 6
    THEN Then(Cpu_read(s, Cpu_get_r16(s.cpu, 2)), LAMBDA s1 : Exec_inc_r8_of(s1, 6, s1.v))
    ELSE Exec_inc_r8_of(s, (op \div 8) % 8, Cpu_get_r8(s.cpu, (op \div 8) % 8))

\* dec r8 with the half carry of inc r8
Exec_dec_r8_of_off(s, r, r8) ==
    Then(SetCpu(s, [(IF r = 6 THEN s.cpu ELSE Cpu_set_r8(s.cpu, r, (r8 + 255) % 256))
                       EXCEPT !.f.zero = ((r8 + 255) % 256 = 0), !.f.sub = TRUE,
                              !.f.half_carry = (r8 % 16 = 15)]), LAMBDA s2 :
        IF r = 6
        THEN Return(CpuBus_write(s2, Cpu_get_r16(s2.cpu, 2), (r8 + 255) % 256), 3)
        ELSE Return(s2, 1))

\* dec r8, from the operand r8 on: the flags are set, then [hl] is stored
Exec_dec_r8_of(s, r, r8) ==
    Then(SetCpu(s, [(IF r = 6 THEN s.cpu ELSE Cpu_set_r8(s.cpu, r, (r8 + 255) % 256))
                       EXCEPT !.f.zero = ((r8 + 255) % 256 = 0), !.f.sub = TRUE,
                              !.f.half_carry = (r8 % 16 = 0)]), LAMBDA s2 :
        IF r = 6
        THEN Return(CpuBus_write(s2, Cpu_get_r16(s2.cpu, 2), (r8 + 255) % 256), 3)
        ELSE Return(s2, 1))

\* dec r8
Exec_dec_r8(s, op) ==
    IF (op \div 8) % 8 = 6
    THEN Then(Cpu_read(s, Cpu_get_r16(s.cpu, 2)), LAMBDA s1 : Exec_dec_r8_of(s1, 6, s1.v))
    ELSE Exec_dec_r8_of(s, (op \div 8) % 8, Cpu_get_r8(s.cpu, (op \div 8) % 8))

\* ld r8, n8
Exec_ld_r8_n8(s, op) ==
    Then(Cpu_fetch(s), LAMBDA s1 :
        IF (op \div 8) % 8 = 6
        THEN Return(CpuBus_write(s1, Cpu_get_r16(s1.cpu, 2), s1.v), 3)
        ELSE Return(SetCpu(s1, Cpu_set_r8(s1.cpu, (op \div 8) % 8, s1.v)), 2))

\* ld [n16], sp
Exec_ld_n16_sp(s) ==
    Then(Cpu_fetch16(s), LAMBDA s1 :
    Then(CpuBus_write(s1, s1.v, s1.cpu.sp % 256), LAMBDA s2 :
        IF s2.err # NoErr THEN s2
        ELSE IF Overflows16(s2, s1.v + 1) THEN Panic(s2, "attempt to add with overflow")
        ELSE Return(CpuBus_write(s2, Wrap16(s1.v + 1), s2.cpu.sp \div 256), 5)))

RotL8(x) == ((x * 2) % 256) + (x \div 128)
RotR8(x) == (x \div 2) + ((x % 2) * 128)

\* rlca
Exec_rlca(s) ==
    LET a == RotL8(s.cpu.a)
    IN  Return(SetCpu(s, [s.cpu EXCEPT !.a = a, !.f = Flags(FALSE, FALSE, FALSE, a % 2 = 1)]), 1)

\* rrca
Exec_rrca(s) ==
    Return(SetCpu(s, [s.cpu EXCEPT !.a = RotR8(@),
                                    !.f = Flags(FALSE, FALSE, FALSE, s.cpu.a % 2 = 1)]), 1)

\* rla
Exec_rla(s) ==
    Return(SetCpu(s, [s.cpu EXCEPT !.a = BitOr((@ * 2) % 256, CarryBit(s.cpu)),
                                    !.f = Flags(FALSE, FALSE, FALSE, s.cpu.a >= 128)]), 1)

\* rra
Exec_rra(s) ==
    Return(SetCpu(s, [s.cpu EXCEPT !.a = BitOr(@ \div 2, CarryBit(s.cpu) * 128),
                                    !.f = Flags(FALSE, FALSE, FALSE, s.cpu.a % 2 = 1)]), 1)

\* daa, the low digit adjusted only above 10
Exec_daa_off(s) ==
    LET c == s.cpu
        adj_sub == (IF c.f.half_carry THEN 6 ELSE 0) + (IF c.f.carry THEN 96 ELSE 0)
        low == c.f.half_carry \/ c.a % 16 > 10
        high == c.f.carry \/ c.a > 153
        adj_add == (IF low THEN 6 ELSE 0) + (IF high THEN 96 ELSE 0)
        a == IF c.f.sub THEN (c.a - adj_sub + 256) % 256 ELSE (c.a + adj_add) % 256
        carry == IF c.f.sub THEN c.f.carry ELSE (c.f.carry \/ high)
    IN  Return(SetCpu(s, [c EXCEPT !.a = a, !.f.zero = (a = 0), !.f.half_carry = FALSE,
                                   !.f.carry = carry]), 1)

\* daa
Exec_daa(s) ==
    LET c == s.cpu
        adj_sub == (IF c.f.half_carry THEN 6 ELSE 0) + (IF c.f.carry THEN 96 ELSE 0)
        low == c.f.half_carry \/ c.a % 16 > 9
        high == c.f.carry \/ c.a > 153
        adj_add == (IF low THEN 6 ELSE 0) + (IF high THEN 96 ELSE 0)
        a == IF c.f.sub THEN (c.a - adj_sub + 256) % 256 ELSE (c.a + adj_add) % 256
        carry == IF c.f.sub THEN c.f.carry ELSE (c.f.carry \/ high)
    IN  Return(SetCpu(s, [c EXCEPT !.a = a, !.f.zero = (a = 0), !.f.half_carry = FALSE,
                                   !.f.carry = carry]), 1)

\* cpl
Exec_cpl(s) ==
    Return(SetCpu(s, [s.cpu EXCEPT !.a = Not8(@), !.f.sub = TRUE, !.f.half_carry = TRUE]), 1)

\* scf
Exec_scf(s) ==
    Return(SetCpu(s, [s.cpu EXCEPT !.f.sub = FALSE, !.f.half_carry = FALSE,
                                    !.f.carry = TRUE]), 1)

\* ccf
Exec_ccf(s) ==
    Return(SetCpu(s, [s.cpu EXCEPT !.f.sub = FALSE, !.f.half_carry = FALSE,
                                    !.f.carry = ~@]), 1)

\* jr n8 (and the taken branch of jr cond, n8)
Exec_jr(s) ==
    Then(Cpu_fetch(s), LAMBDA s1 :
        Return(SetCpu(s1, [s1.cpu EXCEPT !.pc = AddSigned16(@, AsI8(s1.v))]), 3))

\* jr cond, n8
Exec_jr_cond(s, op) ==
    IF Cpu_cond(s.cpu, (op \div 8) % 4) THEN Exec_jr(s)
    ELSE IF Overflows16(s, s.cpu.pc + 1) THEN Panic(s, "attempt to add with overflow")
    ELSE Return(SetCpu(s, [s.cpu EXCEPT !.pc = Wrap16(@ + 1)]), 2)

\* ld r16, n16
Exec_ld_r16_n16(s, op) ==
    Then(Cpu_fetch16(s), LAMBDA s1 :
        Return(SetCpu(s1, Cpu_set_r16(s1.cpu, (op \div 16) % 4, s1.v)), 3))

\* hl+ / hl-: HL after an access through r16mem index r, r16 the address used
AfterR16Mem(c, r, r16) ==
    IF r = 2 THEN Cpu_set_r16(c, 2, Wrap16(r16 + 1))
    ELSE IF r = 3 THEN Cpu_set_r16(c, 2, Wrap16(r16 + 65535))
    ELSE c

\* ld [r16mem], a, r16 the address
Exec_ld_r16mem_a_at(s, r, r16) ==
    Then(CpuBus_write(s, r16, s.cpu.a), LAMBDA s1 :
        Return(SetCpu(s1, AfterR16Mem(s1.cpu, r, r16)), 2))

\* ld [r16mem], a
Exec_ld_r16mem_a(s, op) ==
    Exec_ld_r16mem_a_at(s, (op \div 16) % 4,
                        Cpu_get_r16(s.cpu, IF (op \div 16) % 4 = 3 THEN 2 ELSE (op \div 16) % 4))

\* ld a, [r16mem], r16 the address
Exec_ld_a_r16mem_at(s, r, r16) ==
    Then(Cpu_read(s, r16), LAMBDA s1 :
        Return(SetCpu(s1, AfterR16Mem([s1.cpu EXCEPT !.a = s1.v], r, r16)), 2))

\* ld a, [r16mem]
Exec_ld_a_r16mem(s, op) ==
    Exec_ld_a_r16mem_at(s, (op \div 16) % 4,
                        Cpu_get_r16(s.cpu, IF (op \div 16) % 4 = 3 THEN 2 ELSE (op \div 16) % 4))

\* inc r16
Exec_inc_r16(s, op) ==
    LET r == (op \div 16) % 4
    IN  Return(SetCpu(s, Cpu_set_r16(s.cpu, r, Wrap16(Cpu_get_r16(s.cpu, r) + 1))), 2)

\* dec r16
Exec_dec_r16(s, op) ==
    LET r == (op \div 16) % 4
    IN  Return(SetCpu(s, Cpu_set_r16(s.cpu, r, Wrap16(Cpu_get_r16(s.cpu, r) + 65535))), 2)

\* add hl, r16
Exec_add_hl_r16(s, op) ==
    LET r == (op \div 16) % 4
        r16 == Cpu_get_r16(s.cpu, r)
        hl == Cpu_get_r16(s.cpu, 2)
        c1 == Cpu_set_r16(s.cpu, 2, Wrap16(hl + r16))
    IN  Return(SetCpu(s, [c1 EXCEPT !.f.sub = FALSE,
                                    !.f.half_carry = (hl % 4096) + (r16 % 4096) > 4095,
                                    !.f.carry = hl + r16 > 65535]), 2)

\* block 0: `match op & 0b111_111`, then `match op & 0b1111`
Exec_block0(s, op) ==
    CASE op = 0 -> Return(s, 1)
      [] op = 8 -> Exec_ld_n16_sp(s)
      [] op = 7 -> Exec_rlca(s)
      [] op = 15 -> Exec_rrca(s)
      [] op = 23 -> Exec_rla(s)
      [] op = 31 -> Exec_rra(s)
      [] op = 39 -> Exec_daa(s)
      [] op = 47 -> Exec_cpl(s)
      [] op = 55 -> Exec_scf(s)
      [] op = 63 -> Exec_ccf(s)
      [] op = 24 -> Exec_jr(s)
      [] op = 16 -> Return(s, 1)
      [] OTHER ->
           CASE op % 16 \in {0, 8} -> Exec_jr_cond(s, op)
             [] op % 16 = 1 -> Exec_ld_r16_n16(s, op)
             [] op % 16 = 2 -> Exec_ld_r16mem_a(s, op)
             [] op % 16 = 10 -> Exec_ld_a_r16mem(s, op)
             [] op % 16 = 3 -> Exec_inc_r16(s, op)
             [] op % 16 = 11 -> Exec_dec_r16(s, op)
             [] op % 16 = 9 -> Exec_add_hl_r16(s, op)
             [] op % 16 \in {4, 12} -> Exec_inc_r8(s, op)
             [] op % 16 \in {5, 13} -> Exec_dec_r8(s, op)
             [] op % 16 \in {6, 14} -> Exec_ld_r8_n8(s, op)
             [] OTHER -> Panic(s, "is not an instruction")

\* ---- block 1: halt and ld r8, r8 ----

\* the bytes of a line written by println!
Println(s, bytes) ==
    IF s.err # NoErr THEN s ELSE [s EXCEPT !.serial = @ \o bytes \o << 10 >>]

\* "WARNING: HALT BUG NOT IMPLEMENTED!"
HaltBugWarning ==
    << 87, 65, 82, 78, 73, 78, 71, 58, 32, 72, 65, 76, 84, 32, 66, 85, 71, 32,
       78, 79, 84, 32, 73, 77, 80, 76, 69, 77, 69, 78, 84, 69, 68, 33 >>

\* one digit of `{:x}`, and `{:04x}` of a 16-bit value
HexDigit(d) == IF d < 10 THEN 48 + d ELSE 87 + d
Hex04(w) ==
    << HexDigit(w \div 4096), HexDigit((w \div 256) % 16), HexDigit((w \div 16) % 16),
       HexDigit(w % 16) >>

\* one line of print_regs, "XY: $" and the value, X and Y as their codes
RegLine(x, y, w) == << x, y, 58, 32, 36 >> \o Hex04(w)

\* Cpu::print_regs: AF, BC, DE, HL and SP, one line each
Cpu_print_regs(s) ==
    Println(Println(Println(Println(Println(s,
        RegLine(65, 70, BitOr(s.cpu.a * 256, U8_from_Flag(s.cpu.f)))),
        RegLine(66, 67, Cpu_get_r16(s.cpu, 0))),
        RegLine(68, 69, Cpu_get_r16(s.cpu, 1))),
        RegLine(72, 76, Cpu_get_r16(s.cpu, 2))),
        RegLine(83, 80, Cpu_get_r16(s.cpu, 3)))

\* halt: the warning is printed when IME is Disabled and an interrupt is
\* pending; if_ and ie of Cpu::tick are IF and IE as the bus reads them, which
\* nothing has written since the entry of the tick
Exec_halt(s) ==
    Return(IF s.cpu.ime = "Disabled"
              /\ BitAnd(BitAnd(CpuBus_read(s, IF_REG), CpuBus_read(s, IE)), \b11111) > 0
           THEN Println(SetCpu(s, [s.cpu EXCEPT !.halted = TRUE]), HaltBugWarning)
           ELSE SetCpu(s, [s.cpu EXCEPT !.halted = TRUE]), 1)

Exec_block1(s, op) ==
    IF op = 118 THEN Exec_halt(s)
    ELSE IF (op \div 8) % 8 = 6
    THEN Return(CpuBus_write(s, Cpu_get_r16(s.cpu, 2), Cpu_get_r8(s.cpu, op % 8)), 2)
    ELSE IF op % 8 = 6
    THEN Then(Cpu_read(s, Cpu_get_r16(s.cpu, 2)), LAMBDA s1 :
            Return(SetCpu(s1, Cpu_set_r8(s1.cpu, (op \div 8) % 8, s1.v)), 2))
    ELSE Return(SetCpu(s, Cpu_set_r8(s.cpu, (op \div 8) % 8, Cpu_get_r8(s.cpu, op % 8))), 1)

\* ---- block 3: the 0xCB prefix ----

\* the eight rotates and shifts of `match (op >> 3) & 0b111`: the new byte and
\* the new carry flag, from the old byte and the old carry (0 or 1)
CbShift(kind, byte, carry) ==
    CASE kind = 0 -> [val |-> RotL8(byte), carry |-> RotL8(byte) % 2 = 1]
      [] kind = 1 -> [val |-> RotR8(byte), carry |-> byte % 2 = 1]
      [] kind = 2 -> [val |-> BitOr((byte * 2) % 256, carry), carry |-> byte >= 128]
      [] kind = 3 -> [val |-> BitOr(byte \div 2, carry * 128), carry |-> byte % 2 = 1]
      [] kind = 4 -> [val |-> (byte * 2) % 256, carry |-> byte >= 128]
      [] kind = 5 -> [val |-> BitOr(byte \div 2, BitAnd(byte, 128)), carry |-> byte % 2 = 1]
      [] kind = 6 -> [val |-> (byte \div 16) + ((byte % 16) * 16), carry |-> FALSE]
      [] kind = 7 -> [val |-> byte \div 2, carry |-> byte % 2 = 1]

\* a rotate or shift of [hl], the flags N, H (and C for swap) already cleared
Exec_cb_shift_hl(s, kind, hl, carry) ==
    Then(Cpu_read(s, hl), LAMBDA s1 :
    Then(SetCpu(s1, [s1.cpu EXCEPT !.f.carry = CbShift(kind, s1.v, carry).carry,
                                   !.f.zero = (CbShift(kind, s1.v, carry).val = 0)]),
         LAMBDA s2 : Return(CpuBus_write(s2, hl, CbShift(kind, s1.v, carry).val), 4)))

\* a rotate or shift of register r, the flags N, H (and C for swap) already
\* cleared
Exec_cb_shift_r8(s, kind, r, carry) ==
    Return(SetCpu(s, [Cpu_set_r8(s.cpu, r, CbShift(kind, Cpu_get_r8(s.cpu, r), carry).val)
                         EXCEPT !.f.carry = CbShift(kind, Cpu_get_r8(s.cpu, r), carry).carry,
                                !.f.zero = (CbShift(kind, Cpu_get_r8(s.cpu, r), carry).val = 0)]),
           2)

\* rlc / rrc / rl / rr / sla / sra / swap / srl r8
Exec_cb_shift(s, op) ==
    Then(SetCpu(s, [s.cpu EXCEPT !.f.sub = FALSE, !.f.half_carry = FALSE,
                                 !.f.carry = IF (op \div 8) % 8 = 6 THEN FALSE ELSE @]),
         LAMBDA s0 :
        IF op % 8 = 6
        THEN Exec_cb_shift_hl(s0, (op \div 8) % 8, Cpu_get_r16(s0.cpu, 2), CarryBit(s0.cpu))
        ELSE Exec_cb_shift_r8(s0, (op \div 8) % 8, op % 8, CarryBit(s0.cpu)))

\* bit b3, r8, from the operand r8 on
Exec_cb_bit_of(s, bit, r8, cyc) ==
    Return(SetCpu(s, [s.cpu EXCEPT !.f.zero = (Bit(r8, bit) = 0), !.f.sub = FALSE,
                                   !.f.half_carry = TRUE]), cyc)

\* bit b3, r8
Exec_cb_bit(s, op) ==
    IF op % 8 = 6
    THEN Then(Cpu_read(s, Cpu_get_r16(s.cpu, 2)), LAMBDA s1 :
            Exec_cb_bit_of(s1, (op \div 8) % 8, s1.v, 3))
    ELSE Exec_cb_bit_of(s, (op \div 8) % 8, Cpu_get_r8(s.cpu, op % 8), 2)

\* res b3, r8
Exec_cb_res(s, op) ==
    IF op % 8 = 6
    THEN Then(Cpu_read(s, Cpu_get_r16(s.cpu, 2)), LAMBDA s1 :
            Return(CpuBus_write(s1, Cpu_get_r16(s1.cpu, 2),
                                BitAnd(s1.v, Not8(Pow2((op \div 8) % 8)))), 4))
    ELSE Return(SetCpu(s, Cpu_set_r8(s.cpu, op % 8,
                          BitAnd(Cpu_get_r8(s.cpu, op % 8), Not8(Pow2((op \div 8) % 8))))), 2)

\* set b3, r8
Exec_cb_set(s, op) ==
    IF op % 8 = 6
    THEN Then(Cpu_read(s, Cpu_get_r16(s.cpu, 2)), LAMBDA s1 :
            Return(CpuBus_write(s1, Cpu_get_r16(s1.cpu, 2),
                                BitOr(s1.v, Pow2((op \div 8) % 8))), 4))
    ELSE Return(SetCpu(s, Cpu_set_r8(s.cpu, op % 8,
                          BitOr(Cpu_get_r8(s.cpu, op % 8), Pow2((op \div 8) % 8)))), 2)

\* prefix: the second opcode byte is fetched, then `match (op >> 6) & 0b11`
Exec_prefix(s) ==
    Then(Cpu_fetch(s), LAMBDA s1 :
        IF s1.err # NoErr THEN s1
        ELSE CASE s1.v \div 64 = 1 -> Exec_cb_bit(s1, s1.v)
               [] s1.v \div 64 = 2 -> Exec_cb_res(s1, s1.v)
               [] s1.v \div 64 = 3 -> Exec_cb_set(s1, s1.v)
               [] OTHER -> Exec_cb_shift(s1, s1.v))

\* ---- block 3: the rest ----

\* reti enabling the interrupts one instruction late, as ei does
Exec_ret_off(s, enable, n) ==
    Then(Cpu_pop16(s), LAMBDA s1 :
        Return(SetCpu(s1, [s1.cpu EXCEPT !.pc = s1.v,
                                         !.ime = IF enable THEN "Pending" ELSE @]), n))

\* ret (4 cycles), reti (4 cycles, enable = TRUE) and the taken ret cond (5)
Exec_ret(s, enable, n) ==
    Then(Cpu_pop16(s), LAMBDA s1 :
        Return(SetCpu(s1, [s1.cpu EXCEPT !.pc = s1.v,
                                         !.ime = IF enable THEN "Enabled" ELSE @]), n))

\* call n16 (and the taken call cond, n16)
Exec_call(s) ==
    Then(Cpu_fetch16(s), LAMBDA s1 :
    Then(Cpu_push16(s1, s1.cpu.pc), LAMBDA s2 :
        Return(SetCpu(s2, [s2.cpu EXCEPT !.pc = s1.v]), 6)))

\* jp n16 (and the taken jp cond, n16)
Exec_jp(s) ==
    Then(Cpu_fetch16(s), LAMBDA s1 :
        Return(SetCpu(s1, [s1.cpu EXCEPT !.pc = s1.v]), 4))

\* `self.pc += 2` of a jp cond / call cond not taken
Exec_skip16(s) ==
    IF Overflows16(s, s.cpu.pc + 2) THEN Panic(s, "attempt to add with overflow")
    ELSE Return(SetCpu(s, [s.cpu EXCEPT !.pc = Wrap16(@ + 2)]), 3)

\* ldh [c], a
Exec_ldh_c_a(s) == Return(CpuBus_write(s, BitOr(\hFF00, s.cpu.c), s.cpu.a), 2)

\* ldh [n8], a
Exec_ldh_n8_a(s) ==
    Then(Cpu_fetch(s), LAMBDA s1 :
        Return(CpuBus_write(s1, BitOr(\hFF00, s1.v), s1.cpu.a), 3))

\* ld [n16], a
Exec_ld_n16_a(s) ==
    Then(Cpu_fetch16(s), LAMBDA s1 :
        Return(CpuBus_write(s1, s1.v, s1.cpu.a), 4))

\* ldh a, [c]
Exec_ldh_a_c(s) ==
    Then(Cpu_read(s, BitOr(\hFF00, s.cpu.c)), LAMBDA s1 :
        Return(SetCpu(s1, [s1.cpu EXCEPT !.a = s1.v]), 2))

\* ldh a, [n8]
Exec_ldh_a_n8(s) ==
    Then(Cpu_fetch(s), LAMBDA s1 :
    Then(Cpu_read(s1, BitOr(\hFF00, s1.v)), LAMBDA s2 :
        Return(SetCpu(s2, [s2.cpu EXCEPT !.a = s2.v]), 3)))

\* ld a, [n16]
Exec_ld_a_n16(s) ==
    Then(Cpu_fetch16(s), LAMBDA s1 :
    Then(Cpu_read(s1, s1.v), LAMBDA s2 :
        Return(SetCpu(s2, [s2.cpu EXCEPT !.a = s2.v]), 4)))

\* the flags of add sp, n8 and ld hl, sp + n8, n8 the fetched byte
SpOffsetFlags(sp, n8) ==
    Flags(FALSE, FALSE, (sp % 16) + (n8 % 16) > 15, (sp % 256) + n8 > 255)

\* add sp, n8
Exec_add_sp_n8(s) ==
    Then(Cpu_fetch(s), LAMBDA s1 :
        Return(SetCpu(s1, [s1.cpu EXCEPT !.f = SpOffsetFlags(s1.cpu.sp, s1.v),
                                         !.sp = AddSigned16(@, AsI8(s1.v))]), 4))

\* ld hl, sp + n8
Exec_ld_hl_sp_n8(s) ==
    Then(Cpu_fetch(s), LAMBDA s1 :
        Return(SetCpu(s1, Cpu_set_r16([s1.cpu EXCEPT !.f = SpOffsetFlags(s1.cpu.sp, s1.v)],
                                      2, AddSigned16(s1.cpu.sp, AsI8(s1.v)))), 3))

\* rst tgt3
Exec_rst(s, op) ==
    Then(Cpu_push16(s, s.cpu.pc), LAMBDA s1 :
        Return(SetCpu(s1, [s1.cpu EXCEPT !.pc = ((op \div 8) % 8) * 8]), 4))

\* pop r16stk
Exec_pop_r16stk(s, op) ==
    Then(Cpu_pop(s), LAMBDA s1 :
    Then(Cpu_pop(s1), LAMBDA s2 :
        IF (op \div 16) % 4 = 3
        THEN Return(SetCpu(s2, [s2.cpu EXCEPT !.f = Flag_from_u8(s1.v), !.a = s2.v]), 3)
        ELSE Return(SetCpu(s2, Cpu_set_r16(s2.cpu, (op \div 16) % 4,
                                           BitOr(s1.v, s2.v * 256))), 3)))

\* push r16stk
Exec_push_r16stk(s, op) ==
    IF (op \div 16) % 4 = 3
    THEN Return(Cpu_push(Cpu_push(s, s.cpu.a), U8_from_Flag(s.cpu.f)), 4)
    ELSE Return(Cpu_push16(s, Cpu_get_r16(s.cpu, (op \div 16) % 4)), 4)

\* block 3: `match op & 0b111_111`, then `match op & 0b1111`
Exec_block3(s, op) ==
    CASE op = \hCB -> Exec_prefix(s)
      [] op \in {\hC6, \hCE, \hD6, \hDE, \hE6, \hEE, \hF6, \hFE} -> Exec_alu_n8(s, op)
      [] op = \hC9 -> Exec_ret(s, FALSE, 4)
      [] op = \hD9 -> Exec_ret(s, TRUE, 4)
      [] op = \hCD -> Exec_call(s)
      [] op = \hC3 -> Exec_jp(s)
      [] op = \hE9 -> Return(SetCpu(s, [s.cpu EXCEPT !.pc = Cpu_get_r16(s.cpu, 2)]), 1)
      [] op = \hE2 -> Exec_ldh_c_a(s)
      [] op = \hE0 -> Exec_ldh_n8_a(s)
      [] op = \hEA -> Exec_ld_n16_a(s)
      [] op = \hF2 -> Exec_ldh_a_c(s)
      [] op = \hF0 -> Exec_ldh_a_n8(s)
      [] op = \hFA -> Exec_ld_a_n16(s)
      [] op = \hE8 -> Exec_add_sp_n8(s)
      [] op = \hF8 -> Exec_ld_hl_sp_n8(s)
      [] op = \hF9 -> Return(SetCpu(s, [s.cpu EXCEPT !.sp = Cpu_get_r16(s.cpu, 2)]), 2)
      [] op = \hF3 -> Return(SetCpu(s, [s.cpu EXCEPT !.ime = "Disabled"]), 1)
      [] op = \hFB -> Return(SetCpu(s, [s.cpu EXCEPT !.ime = "Pending"]), 1)
      [] OTHER ->
           CASE op % 16 \in {0, 8} ->
                  IF Cpu_cond(s.cpu, (op \div 8) % 4) THEN Exec_ret(s, FALSE, 5)
                  ELSE Return(s, 2)
             [] op % 16 \in {2, 10} ->
                  IF Cpu_cond(s.cpu, (op \div 8) % 4) THEN Exec_jp(s) ELSE Exec_skip16(s)
             [] op % 16 \in {4, 12} ->
                  IF Cpu_cond(s.cpu, (op \div 8) % 4) THEN Exec_call(s) ELSE Exec_skip16(s)
             [] op % 16 \in {7, 15} -> Exec_rst(s, op)
             [] op % 16 = 1 -> Exec_pop_r16stk(s, op)
             [] op % 16 = 5 -> Exec_push_r16stk(s, op)
             [] OTHER -> Panic(IF op = \hED THEN Cpu_print_regs(s) ELSE s,
                               "is not an instruction")

\* `match (op >> 6) & 0b11` on the fetched opcode
Cpu_decode(s, op) ==
    CASE op \div 64 = 0 -> Exec_block0(s, op)
      [] op \div 64 = 1 -> Exec_block1(s, op)
      [] op \div 64 = 2 -> Exec_block2(s, op)
      [] op \div 64 = 3 -> Exec_block3(s, op)

\* if_ & ie & 0b11111 > 0
InterruptPending(if_, ie) == BitAnd(BitAnd(if_, ie), \b11111) > 0

\* the vectors spaced four bytes apart
Vector_off(bit) == \h40 + bit * 4

\* the vector of interrupt bit `bit`: 0x40 + bit * 8
Vector(bit) == \h40 + bit * 8

\* the interrupt dispatch of Cpu::tick for the lowest pending bit
Cpu_dispatch_bit(s, if_, bit) ==
    Then(Cpu_push16(s, s.cpu.pc), LAMBDA s1 :
    Then(SetCpu(s1, [s1.cpu EXCEPT !.pc = Vector(bit)]), LAMBDA s2 :
    Then(CpuBus_write(s2, IF_REG, BitAnd(if_, Not8(Pow2(bit)))), LAMBDA s3 :
        Return(SetCpu(s3, [s3.cpu EXCEPT !.ime = "Disabled"]), 5))))

\* the interrupt dispatch of Cpu::tick
Cpu_dispatch(s, if_, ie) == Cpu_dispatch_bit(s, if_, TrailingZeros(BitAnd(if_, ie)))

\* the promotion of a pending IME ahead of the dispatch test
Cpu_tick_awake_off(s, if_, ie) ==
    IF s.cpu.ime # "Disabled" /\ InterruptPending(if_, ie)
    THEN Cpu_dispatch(s, if_, ie)
    ELSE Then(Cpu_fetch([s EXCEPT !.cpu.ime = IF @ = "Pending" THEN "Enabled" ELSE @]),
              LAMBDA s3 : IF s3.err # NoErr THEN s3 ELSE Cpu_decode(s3, s3.v))

\* Cpu::tick after the halt check, if_ and ie as read at its entry
Cpu_tick_awake(s, if_, ie) ==
    IF s.cpu.ime = "Enabled" /\ InterruptPending(if_, ie)
    THEN Cpu_dispatch(s, if_, ie)
    ELSE Then(Cpu_fetch([s EXCEPT !.cpu.ime = IF @ = "Pending" THEN "Enabled" ELSE @]),
              LAMBDA s3 : IF s3.err # NoErr THEN s3 ELSE Cpu_decode(s3, s3.v))

\* a halted CPU that wakes only when IME is enabled
Cpu_tick_running_off(s, if_, ie) ==
    IF s.cpu.halted /\ ~(InterruptPending(if_, ie) /\ s.cpu.ime = "Enabled") THEN Return(s, 1)
    ELSE Cpu_tick_awake([s EXCEPT !.cpu.halted = FALSE], if_, ie)

\* Cpu::tick after the stopped check, if_ and ie as read at its entry
Cpu_tick_running(s, if_, ie) ==
    IF s.cpu.halted /\ ~InterruptPending(if_, ie) THEN Return(s, 1)
    ELSE Cpu_tick_awake([s EXCEPT !.cpu.halted = FALSE], if_, ie)

\* Cpu::tick: the machine cycles it returns are left in s.cyc
Cpu_tick(s) ==
    IF s.err # NoErr THEN s
    ELSE IF s.cpu.stopped THEN Return(s, 1)
    ELSE Cpu_tick_running(s, CpuBus_read(s, IF_REG), CpuBus_read(s, IE))

-----------------------------------------------------------------------------
(* Emulator (emulator/mod.rs).                                             *)

\* the timer part without the write-back of DIV
Emulator_tick_timer_off(s, t_cyc) ==
    IF s.err # NoErr THEN s
    ELSE Then(Timer_tick(s.timer.counter, Ram_read(s, DIV), Ram_read(s, TIMA),
                         Ram_read(s, TMA), Ram_read(s, TAC), Ram_read(s, IF_REG), t_cyc),
              LAMBDA r :
                 Ram_write(Ram_write([s EXCEPT !.timer.counter = r.counter],
                                     TIMA, r.tima), IF_REG, r.if_))

\* Emulator::tick, the timer part: the registers are read, Timer::tick runs on
\* them and DIV, TIMA and IF are written back
Emulator_tick_timer(s, t_cyc) ==
    IF s.err # NoErr THEN s
    ELSE Then(Timer_tick(s.timer.counter, Ram_read(s, DIV), Ram_read(s, TIMA),
                         Ram_read(s, TMA), Ram_read(s, TAC), Ram_read(s, IF_REG), t_cyc),
              LAMBDA r :
                 Ram_write(Ram_write(Ram_write([s EXCEPT !.timer.counter = r.counter],
                                               DIV, r.div), TIMA, r.tima), IF_REG, r.if_))

\* `print!("{}", b as char)`: the bytes written to stdout are the UTF-8
\* encoding of the character U+0000..U+00FF the byte is cast to
Print_char(b) ==
    IF b < 128 THEN << b >> ELSE << \hC0 + (b \div 64), \h80 + (b % 64) >>

\* Emulator::tick, the serial part: a transfer request (SC bit 7) prints SB
\* and flips the bit; s.serial holds the bytes written to stdout
Emulator_tick_serial(s) ==
    IF s.err # NoErr THEN s
    ELSE IF BitAnd(Ram_read(s, SC), 128) > 0
    THEN Ram_write([s EXCEPT !.serial = @ \o Print_char(Ram_read(s, SB))],
                   SC, BitXor(Ram_read(s, SC), 128))
    ELSE s

\* ---- the debugger: Emulator::debug ----

\* how the process ends with exit(0)
Exit0 == "exit(0)"
Exit(s) == IF s.err # NoErr THEN s ELSE [s EXCEPT !.err = Exit0]

\* bytes written to stdout by print!
Stdout(s, bytes) == IF s.err # NoErr THEN s ELSE [s EXCEPT !.serial = @ \o bytes]

\* `{:02x}` of a byte
Hex02(b) == << HexDigit(b \div 16), HexDigit(b % 16) >>

\* the length of the UTF-8 sequence a byte starts, 0 for a byte that starts none
Utf8Width(b) ==
    IF b < \h80 THEN 1
    ELSE IF b >= \hC2 /\ b <= \hDF THEN 2
    ELSE IF b >= \hE0 /\ b <= \hEF THEN 3
    ELSE IF b >= \hF0 /\ b <= \hF4 THEN 4
    ELSE 0

\* a continuation byte, and the second byte a lead byte admits (no overlong
\* form, no surrogate, nothing above U+10FFFF)
Utf8Cont(b) == b >= \h80 /\ b <= \hBF
Utf8Second(lead, b) ==
    CASE lead = \hE0 -> b >= \hA0 /\ b <= \hBF
      [] lead = \hED -> b >= \h80 /\ b <= \h9F
      [] lead = \hF0 -> b >= \h90 /\ b <= \hBF
      [] lead = \hF4 -> b >= \h80 /\ b <= \h8F
      [] OTHER -> Utf8Cont(b)

\* the character of the well-formed sequence of n bytes at the head of bytes
Utf8Char(bytes, n) ==
    CASE n = 1 -> bytes[1]
      [] n = 2 -> (bytes[1] - \hC0) * 64 + (bytes[2] - \h80)
      [] n = 3 -> (bytes[1] - \hE0) * 4096 + (bytes[2] - \h80) * 64 + (bytes[3] - \h80)
      [] n = 4 -> (bytes[1] - \hF0) * 262144 + (bytes[2] - \h80) * 4096
                     + (bytes[3] - \h80) * 64 + (bytes[4] - \h80)

\* the characters of a byte string as String::from_utf8 takes them; -1 stands
\* at the place of the first ill-formed sequence and ends the result
RECURSIVE Utf8Decode(_)
Utf8Decode(bytes) ==
    IF bytes = <<>> THEN <<>>
    ELSE Then(Utf8Width(Head(bytes)), LAMBDA n :
            IF n = 0 \/ Len(bytes) < n
               \/ (n > 1 /\ ~Utf8Second(bytes[1], bytes[2]))
               \/ (\E i \in 3..n : ~Utf8Cont(bytes[i]))
            THEN << 0 - 1 >>
            ELSE << Utf8Char(bytes, n) >> \o Utf8Decode(SubSeq(bytes, n + 1, Len(bytes))))

\* char::is_whitespace: the characters with the Unicode property White_Space
IsWhitespace(c) ==
    \/ c >= 9 /\ c <= 13
    \/ c \in {\h20, \h85, \hA0, \h1680, \h2028, \h2029, \h202F, \h205F, \h3000}
    \/ c >= \h2000 /\ c <= \h200A

\* the length of the run of characters without whitespace at the head of a line
RECURSIVE WordLen(_)
WordLen(bytes) ==
    IF bytes = <<>> \/ IsWhitespace(Head(bytes)) THEN 0 ELSE 1 + WordLen(Tail(bytes))

\* str::split_whitespace: the words of a line, in order
RECURSIVE SplitWhitespace(_)
SplitWhitespace(bytes) ==
    IF bytes = <<>> THEN <<>>
    ELSE IF IsWhitespace(Head(bytes)) THEN SplitWhitespace(Tail(bytes))
    ELSE Then(WordLen(bytes), LAMBDA n :
            << SubSeq(bytes, 1, n) >> \o SplitWhitespace(SubSeq(bytes, n + 1, Len(bytes))))

\* char::to_digit(radix): the value of a digit 0-9, a-z, A-Z below the radix,
\* -1 for any other character
ToDigit(b, radix) ==
    Then(IF b >= 48 /\ b <= 57 THEN b - 48
         ELSE IF b >= 97 /\ b <= 122 THEN b - 87
         ELSE IF b >= 65 /\ b <= 90 THEN b - 55
         ELSE radix,
         LAMBDA d : IF d < radix THEN d ELSE 0 - 1)

\* the digits of u16::from_str_radix folded from the left: -1 for a byte that
\* is no digit and for a value above 0xFFFF
RECURSIVE ParseDigits(_, _, _)
ParseDigits(digits, radix, acc) ==
    IF digits = <<>> THEN acc
    ELSE Then(ToDigit(Head(digits), radix), LAMBDA d :
            IF d < 0 \/ acc * radix + d > \hFFFF THEN 0 - 1
            ELSE ParseDigits(Tail(digits), radix, acc * radix + d))

\* u16::from_str_radix (and str::parse::<u16> with radix 10): the value, -1
\* for Err; one leading '+' is accepted when a digit follows
FromStrRadix(src, radix) ==
    IF src = <<>> THEN 0 - 1
    ELSE ParseDigits(IF Head(src) = 43 /\ Len(src) > 1 THEN Tail(src) ELSE src, radix, 0)

\* parse_addr: "$" and hexadecimal digits, or decimal digits; -1 for Err
Parse_addr(word) ==
    IF word # <<>> /\ Head(word) = 36 THEN FromStrRadix(Tail(word), 16)
    ELSE FromStrRadix(word, 10)

\* self.ram.read(i) of the debugger: the byte is left in s.v; a read of the
\* bank window without that bank panics
Debug_read(s, i) ==
    IF s.err # NoErr THEN s
    ELSE IF Ram_read_panics(s, i) THEN Panic(s, "index out of bounds")
    ELSE [s EXCEPT !.v = Ram_read(s, i)]

\* the 16 bytes of a row of `x`, " {:02x}" each, from the i-th on
RECURSIVE Debug_bytes(_, _, _)
Debug_bytes(s, addr, i) ==
    IF i = 16 \/ s.err # NoErr THEN s
    ELSE Then(Debug_read(s, (addr + i) % 65536), LAMBDA s1 :
            Debug_bytes(Stdout(s1, << 32 >> \o Hex02(s1.v)), addr, i + 1))

\* one row of `x`: "{:04x}:", the 16 bytes and the end of the line
Debug_row(s, addr) == Println(Debug_bytes(Stdout(s, Hex04(addr) \o << 58 >>), addr, 0), <<>>)

\* the rows at addr and addr + 16
Debug_rows(s, addr) == Debug_row(Debug_row(s, addr), (addr + 16) % 65536)

\* "Breakpoint inserted at $"
BreakpointInserted ==
    << 66, 114, 101, 97, 107, 112, 111, 105, 110, 116, 32, 105, 110, 115, 101, 114, 116,
       101, 100, 32, 97, 116, 32, 36 >>

\* the commands of the debugger other than `c`, on the words of a line:
\* b <addr>, d, r, q, x <addr or sp>; anything else is skipped
Debug_command(s, words) ==
    CASE words[1] = << 98 >> ->
           IF Len(words) > 1 /\ Parse_addr(words[2]) >= 0
           THEN Println([s EXCEPT !.breakpoints = @ \cup {Parse_addr(words[2])}],
                        BreakpointInserted \o Hex04(Parse_addr(words[2])))
           ELSE s
      [] words[1] = << 100 >> -> [s EXCEPT !.breakpoints = {}]
      [] words[1] = << 114 >> -> Cpu_print_regs(s)
      [] words[1] = << 113 >> -> Exit(s)
      [] words[1] = << 120 >> ->
           IF Len(words) = 1 THEN s
           ELSE IF words[2] = << 115, 112 >> THEN Debug_rows(s, s.cpu.sp)
           ELSE IF Parse_addr(words[2]) >= 0 THEN Debug_rows(s, Parse_addr(words[2]))
           ELSE s
      [] OTHER -> s

\* the panic of `stdin().read_line(&mut input).unwrap()`: the message of the
\* error it unwraps
ReadLinePanic == "stream did not contain valid UTF-8"

\* one round of the loop of Emulator::debug: read_line takes the next line of
\* stdin (nothing at the end of file) and panics when it is not UTF-8; the
\* line is split into words; no word (an empty line, the end of file) ends
\* the loop, `c` ends it with debug_mode off, any other line runs its command.
\* `more` tells that the loop goes on to read the next line
Debug_line(s) ==
    IF s.stdin = <<>> THEN [s |-> s, more |-> FALSE]
    ELSE Then(Utf8Decode(Head(s.stdin)), LAMBDA chars :
         Then([s EXCEPT !.stdin = Tail(@)], LAMBDA s1 :
            IF \E i \in DOMAIN chars : chars[i] < 0
            THEN [s |-> Panic(s1, ReadLinePanic), more |-> FALSE]
            ELSE Then(SplitWhitespace(chars), LAMBDA words :
                    IF words = <<>> THEN [s |-> s1, more |-> FALSE]
                    ELSE IF words[1] = << 99 >>
                    THEN [s |-> [s1 EXCEPT !.debug_mode = FALSE], more |-> FALSE]
                    ELSE Then(Debug_command(s1, words), LAMBDA s2 :
                            [s |-> s2, more |-> s2.err = NoErr]))))

\* the loop of Emulator::debug, to its end
RECURSIVE Debug_loop(_)
Debug_loop(s) ==
    IF s.err # NoErr THEN s
    ELSE Then(Debug_line(s), LAMBDA r : IF r.more THEN Debug_loop(r.s) ELSE r.s)

\* Emulator::debug up to its loop: debug_mode is set and
\* "OP at {pc}: ${byte at pc}" is printed
Emulator_debug_start(s) ==
    Then(Debug_read([s EXCEPT !.debug_mode = TRUE], s.cpu.pc), LAMBDA s1 :
        Println(s1, << 79, 80, 32, 97, 116, 32 >> \o Hex04(s1.cpu.pc)
                       \o << 58, 32, 36 >> \o Hex02(s1.v)))

\* Emulator::debug
Emulator_debug(s) == Debug_loop(Emulator_debug_start(s))

\* Emulator::tick, its start: the debugger is entered in debug mode and at a
\* breakpoint
Emulator_tick_debug(s) ==
    IF s.err # NoErr THEN s
    ELSE IF s.debug_mode \/ s.cpu.pc \in s.breakpoints THEN Emulator_debug(s)
    ELSE s

\* the timer and the PPU advanced by the machine cycles, not by four times them
Emulator_tick_off(s) ==
    Then(Cpu_tick(Emulator_tick_debug(s)), LAMBDA s1 :
        IF s1.err # NoErr THEN s1
        ELSE Return(Emulator_tick_serial(Ppu_tick(Emulator_tick_timer(s1, s1.cyc),
                                                  s1.cyc)), 4 * s1.cyc))

\* Emulator::tick behind the debugger: one CPU tick, then the timer, the PPU
\* and the serial port advance by its t-cycles, which are left in s.cyc
Emulator_tick_rest(s) ==
    Then(Cpu_tick(s), LAMBDA s1 :
        IF s1.err # NoErr THEN s1
        ELSE Return(Emulator_tick_serial(Ppu_tick(Emulator_tick_timer(s1, 4 * s1.cyc),
                                                  4 * s1.cyc)), 4 * s1.cyc))

\* Emulator::tick: the debugger when it is due, then the rest
Emulator_tick(s) == Emulator_tick_rest(Emulator_tick_debug(s))

\* Emulator::frame_ready
Emulator_frame_ready(s) == s.ppu.mode = "Mode1" /\ Ram_read(s, LY) = 153

-----------------------------------------------------------------------------
(* The machine as one record, and its installation as the next state.      *)

Cur ==
    [mem |-> mem, banks |-> banks, active_bank |-> active_bank, cpu |-> cpu,
     timer |-> timer, ppu |-> ppu, serial |-> serial, debug_mode |-> debug_mode,
     breakpoints |-> breakpoints, stdin |-> stdin, err |-> err,
     checked |-> checked, v |-> 0, cyc |-> 0]

InstallAt(s, pos) ==
    /\ mem' = s.mem
    /\ banks' = s.banks
    /\ active_bank' = s.active_bank
    /\ cpu' = s.cpu
    /\ timer' = s.timer
    /\ ppu' = s.ppu
    /\ serial' = s.serial
    /\ debug_mode' = s.debug_mode
    /\ breakpoints' = s.breakpoints
    /\ stdin' = s.stdin
    /\ err' = s.err
    /\ checked' = checked
    /\ stage' = pos

\* the machine installed, the process where it stood
Install(s) == InstallAt(s, stage)

-----------------------------------------------------------------------------
(* Specification SpecTimer: Timer::tick on drawn register values.          *)

MaxTimerDots == 4

TimerCounters == {0, 15, 31, 63, 127, 255, 511, 1023, 2047, 65535}
TimerTacs == {0, 4, 5, 6, 7}
TimerTimas == {0, 254, 255}
TimerTmas == {0, 16, 255}
TimerIfs == {\hE1, \hE5}
TimerCycs == {1, 2, 4}

InitTimer ==
    /\ \E c \in TimerCounters, tac \in TimerTacs, tima \in TimerTimas,
          tma \in TimerTmas, if_ \in TimerIfs :
          /\ timer = [counter |-> c]
          /\ mem = Poke(Ram_new_mem, (DIV :> (c \div 256)) @@ (TAC :> tac)
                          @@ (TIMA :> tima) @@ (TMA :> tma) @@ (IF_REG :> if_))
          /\ hist = [dots |-> 0,
                     start |-> [counter |-> c, tima |-> tima, tac |-> tac]]
    /\ banks = <<>>
    /\ active_bank = 0
    /\ cpu = Cpu_new
    /\ ppu = Ppu_new
    /\ serial = <<>>
    /\ debug_mode = FALSE
    /\ breakpoints = {}
    /\ stdin = <<>>
    /\ stage = "tick"
    /\ err = NoErr
    /\ ret = 0
    /\ checked = TRUE
    /\ last = [op |-> "init"]

\* the record of a timer advance: the inputs Timer::tick was called with
TimerInputs(t_cyc) ==
    [op |-> "Timer_tick", t_cyc |-> t_cyc, counter |-> timer.counter,
     tima |-> ArrGet(mem, TIMA), tma |-> ArrGet(mem, TMA), tac |-> ArrGet(mem, TAC),
     if_ |-> ArrGet(mem, IF_REG)]

TimerAdvance(t_cyc, bound) ==
    /\ err = NoErr
    /\ hist.dots + t_cyc <= bound
    /\ Install(Emulator_tick_timer(Cur, t_cyc))
    /\ ret' = ret
    /\ last' = TimerInputs(t_cyc)
    /\ hist' = [hist EXCEPT !.dots = @ + t_cyc]

NextTimer == \E t_cyc \in TimerCycs : TimerAdvance(t_cyc, MaxTimerDots)

SpecTimer == InitTimer /\ [][NextTimer]_vars

-----------------------------------------------------------------------------
(* Specification SpecPpu: Ppu::tick from the reset state, the dots split   *)
(* into calls in every way the call sizes allow; the guest may clear IF    *)
(* bit 0 between calls (a store to IF through the CPU bus).                *)

\* one frame: 154 scanlines
FrameDots == 154 * SCANLINE_DOTS
MaxPpuDots == 141000

PpuScxs == {0, 5}
PpuCallDots == {12, 24}

\* the mark of an event that has not occurred yet
Never == 0 - 1

\* Emulator::new(), SCX then set by the guest
InitPpu ==
    /\ \E scx \in PpuScxs :
          /\ mem = Poke(Ram_new_mem, (SCX :> scx))
          /\ hist = [dots |-> 0, scx |-> scx,
                     ly_at |-> [v \in 0 .. 153 |-> Never],
                     ly_prev |-> [v \in 0 .. 153 |-> Never],
                     vbl_at |-> Never, vbl_prev |-> Never]
    /\ banks = <<>>
    /\ active_bank = 0
    /\ cpu = Cpu_new
    /\ timer = Timer_new
    /\ ppu = Ppu_new
    /\ serial = <<>>
    /\ debug_mode = FALSE
    /\ breakpoints = {}
    /\ stdin = <<>>
    /\ stage = "tick"
    /\ err = NoErr
    /\ ret = 0
    /\ checked = TRUE
    /\ last = [op |-> "init"]

\* an entry into a new LY value at dot `at` is recorded
PpuLineMark(h, ly0, ly1, at) ==
    IF ly1 # ly0
    THEN [h EXCEPT !.ly_at[ly1] = at, !.ly_prev[ly1] = h.ly_at[ly1]]
    ELSE h

\* an entry into VBlank at dot `at` is recorded
PpuVblMark(h, entered, at) ==
    IF entered THEN [h EXCEPT !.vbl_at = at, !.vbl_prev = h.vbl_at] ELSE h

\* hist after a call that led from s0 to s1; the scanline now running began at
\* dot hist.dots + dots - s1.ppu.counter
PpuHist(s0, s1, dots) ==
    PpuVblMark(PpuLineMark([hist EXCEPT !.dots = @ + dots], Ram_read(s0, LY),
                           Ram_read(s1, LY), hist.dots + dots - s1.ppu.counter),
               s0.ppu.mode = "Mode0" /\ s1.ppu.mode = "Mode1",
               hist.dots + dots - s1.ppu.counter)

PpuTick(dots) ==
    /\ err = NoErr
    /\ hist.dots + dots <= MaxPpuDots
    /\ \E s0 \in {Cur} :
       \E s1 \in {Ppu_tick(s0, dots)} :
          /\ Install(s1)
          /\ ret' = ret
          /\ last' = [op |-> "Ppu_tick", dots |-> dots, ly |-> Ram_read(s0, LY),
                      if_ |-> Ram_read(s0, IF_REG), mode |-> s0.ppu.mode]
          /\ hist' = PpuHist(s0, s1, dots)

\* the guest acknowledges VBlank: IF is stored with bit 0 cleared
GuestAckVBlank ==
    /\ err = NoErr
    /\ hist.dots > 0
    /\ BitAnd(Ram_read(Cur, IF_REG), 1) = 1
    /\ Install(CpuBus_write(Cur, IF_REG, BitAnd(Ram_read(Cur, IF_REG), 254)))
    /\ ret' = ret
    /\ last' = [op |-> "CpuBus_write", addr |-> IF_REG]
    /\ hist' = hist

NextPpu ==
    \/ \E dots \in PpuCallDots : PpuTick(dots)
    \/ GuestAckVBlank

SpecPpu == InitPpu /\ [][NextPpu]_vars

-----------------------------------------------------------------------------
(* Claims on the PPU frame.                                                *)

VBlankRose == last.op = "Ppu_tick" /\ Bit(last.if_, 0) = 0 /\ Bit(ArrGet(mem, IF_REG), 0) = 1
EnteredVBlank == last.op = "Ppu_tick" /\ last.mode = "Mode0" /\ ppu.mode = "Mode1"

\* C2: with the LCD on and no guest store to LY, every window of 70224 dots
\* holds exactly one entry into each LY value 0..153 and exactly one raise of IF
\* bit 0: two successive entries into the same LY value, and two successive
\* VBlank raises, are exactly 70224 dots apart, and once 70224 dots have run the
\* last entry into each value and the last raise lie less than 70224 dots back;
\* IF bit 0 rises in a PPU call only when that call enters VBlank.
C2_FrameCadence ==
    /\ ArrGet(mem, LY) \in 0 .. 153
    /\ \A v \in 0 .. 153 :
          /\ hist.ly_prev[v] # Never => hist.ly_at[v] - hist.ly_prev[v] = 70224
          /\ hist.dots >= 70224 =>
                hist.ly_at[v] # Never /\ hist.dots - hist.ly_at[v] < 70224
    /\ hist.vbl_prev # Never => hist.vbl_at - hist.vbl_prev = 70224
    /\ hist.dots >= 70224 => hist.vbl_at # Never /\ hist.dots - hist.vbl_at < 70224
    /\ VBlankRose => EnteredVBlank /\ last.ly = 143 /\ ArrGet(mem, LY) = 144
    /\ EnteredVBlank => Bit(ArrGet(mem, IF_REG), 0) = 1

\* two full frames ran with a scrolled background: every LY value was entered
\* twice and VBlank was raised twice
C2_Witness ==
    /\ \A v \in 0 .. 153 : hist.ly_prev[v] # Never
    /\ hist.vbl_prev # Never
    /\ hist.scx = 5

-----------------------------------------------------------------------------
(* Specification SpecInt: Cpu::tick from drawn CPU states, with drawn IF   *)
(* and IE, one ROM bank loaded and a drawn opcode at PC.                   *)

MaxIntTicks == 2

IntPcs == {\h0100, \hC0FE}
IntSps == {\hFFFE, \hD000, \hE002, \hFFFF, \hFF11, \hFF10, \h8002, \h8001, \h8000,
           \h3000, \h0001, \h0000}
IntImes == {"Disabled", "Pending", "Enabled"}
IntIfs == {\hE0, \hE1, \hE4, \hFF}
IntIes == {\h00, \h04, \h1F, \hE0}
IntOps == {\h00, \hFB}

InitInt ==
    /\ \E pc \in IntPcs, sp \in IntSps, ime \in IntImes, halted \in BOOLEAN,
          stopped \in BOOLEAN, if_ \in IntIfs, ie \in IntIes, op \in IntOps :
          /\ cpu = [Cpu_new EXCEPT !.pc = pc, !.sp = sp, !.ime = ime,
                                   !.halted = halted, !.stopped = stopped]
          /\ mem = Poke(Ram_new_mem, (IF_REG :> if_) @@ (IE :> ie) @@ (pc :> op))
    /\ banks = << (0 :> \h11) @@ (\h3FFF :> \h22) >>
    /\ active_bank = 0
    /\ timer = Timer_new
    /\ ppu = Ppu_new
    /\ serial = <<>>
    /\ debug_mode = FALSE
    /\ breakpoints = {}
    /\ stdin = <<>>
    /\ stage = "tick"
    /\ err = NoErr
    /\ ret = 0
    /\ checked \in BOOLEAN
    /\ last = [op |-> "init"]
    /\ hist = [ticks |-> 0]

\* one call of Cpu::tick; last keeps the state the call started from
CpuTick ==
    /\ err = NoErr
    /\ hist.ticks < MaxIntTicks
    /\ \E s1 \in {Cpu_tick(Cur)} :
          /\ Install(s1)
          /\ ret' = IF s1.err = NoErr THEN s1.cyc ELSE ret
    /\ last' = [op |-> "Cpu_tick", cpu |-> cpu, mem |-> mem, active_bank |-> active_bank]
    /\ hist' = [hist EXCEPT !.ticks = @ + 1]

NextInt == CpuTick

SpecInt == InitInt /\ [][NextInt]_vars

-----------------------------------------------------------------------------
(* Claims on interrupt dispatch.                                           *)

\* IF & IE & 0x1F at the entry of the last tick, bit by bit
PendingBits == {b \in 0 .. 4 : Bit(ArrGet(last.mem, IF_REG), b) = 1
                                /\ Bit(ArrGet(last.mem, IE), b) = 1}

LowestPending == CHOOSE b \in PendingBits : \A c \in PendingBits : b <= c

\* the last step was a tick entered not stopped, with IME enabled and an
\* interrupt both requested and enabled
DispatchCase ==
    /\ last.op = "Cpu_tick"
    /\ ~last.cpu.stopped
    /\ last.cpu.ime = "Enabled"
    /\ PendingBits # {}

\* the two bytes below the entry SP lie in writable memory other than IF
StackWritable ==
    /\ last.cpu.sp >= \h8002
    /\ last.cpu.sp \notin {\hFF10, \hFF11}

\* what the claim says of a dispatch
DispatchEffect ==
    /\ err = NoErr
    /\ ret = 5
    /\ cpu.sp = (last.cpu.sp + 65534) % 65536
    /\ CpuBus_read(Cur, (last.cpu.sp + 65535) % 65536) = last.cpu.pc \div 256
    /\ CpuBus_read(Cur, (last.cpu.sp + 65534) % 65536) = last.cpu.pc % 256
    /\ cpu.pc = 64 + 8 * LowestPending
    /\ \A b \in 0 .. 7 :
          Bit(ArrGet(mem, IF_REG), b) =
             IF b = LowestPending THEN 0 ELSE Bit(ArrGet(last.mem, IF_REG), b)
    /\ ArrGet(mem, IE) = ArrGet(last.mem, IE)
    /\ cpu.ime = "Disabled"
    /\ cpu = [last.cpu EXCEPT !.pc = cpu.pc, !.sp = cpu.sp, !.ime = "Disabled",
                              !.halted = FALSE]
    /\ active_bank = last.active_bank

\* C1 as stated: every tick entered not stopped with IME enabled and
\* IF & IE & 0x1F # 0 pushes PC (high byte at SP-1, low byte at SP-2, SP down by
\* two), jumps to 0x40 + 8b for the lowest pending bit b, clears only bit b of
\* IF, leaves IE alone, disables IME, executes no instruction and returns 5
C1_Original == DispatchCase => DispatchEffect

\* C1 amended: the same, for a tick entered with the two bytes below SP in
\* writable memory (0x8000..0xFFFE) other than IF (0xFF0F)
C1_Dispatch == DispatchCase /\ StackWritable => DispatchEffect

\* a halted CPU was woken and dispatched the timer interrupt (bit 2) while
\* VBlank was not enabled
C1_Witness ==
    /\ DispatchCase
    /\ StackWritable
    /\ last.cpu.halted
    /\ LowestPending = 2
    /\ cpu.pc = \h50

-----------------------------------------------------------------------------
(* Specification SpecAlu: one Cpu::tick on an 8-bit arithmetic or logic    *)
(* opcode, in each operand form, on drawn accumulator, operand and flags.  *)

AluBytes == {\h00, \h01, \h0F, \h10, \h80, \hFF}
AluFlags == {\h00, \h10, \hE0, \hF0}

\* block 2 (0x80..0xBF), the eight n8 forms, inc r8 and dec r8
AluBlock2 == \h80 .. \hBF
AluImm == {\hC6, \hCE, \hD6, \hDE, \hE6, \hEE, \hF6, \hFE}
AluInc == {\h04, \h0C, \h14, \h1C, \h24, \h2C, \h34, \h3C}
AluDec == {\h05, \h0D, \h15, \h1D, \h25, \h2D, \h35, \h3D}
AluOps == AluBlock2 \cup AluImm \cup AluInc \cup AluDec

\* the opcode's operand is the byte at [hl]
UsesHL(op) == (op \in AluBlock2 /\ op % 8 = 6) \/ op \in {\h34, \h35}

AluPc == \hC000
AluHl == \hC100

InitAlu ==
    /\ \E op \in AluOps, a \in AluBytes, x \in AluBytes, f \in AluFlags :
          /\ cpu = [Cpu_new EXCEPT !.pc = AluPc, !.a = a, !.f = Flag_from_u8(f),
                       !.b = x, !.c = x, !.d = x, !.e = x,
                       !.h = IF UsesHL(op) THEN AluHl \div 256 ELSE x,
                       !.l = IF UsesHL(op) THEN AluHl % 256 ELSE x]
          /\ mem = Poke(Ram_new_mem,
                        (AluPc :> op) @@ (AluPc + 1 :> x) @@ (AluHl :> x))
          /\ last = [op |-> "init", opcode |-> op, x |-> x]
    /\ banks = <<>>
    /\ active_bank = 0
    /\ timer = Timer_new
    /\ ppu = Ppu_new
    /\ serial = <<>>
    /\ debug_mode = FALSE
    /\ breakpoints = {}
    /\ stdin = <<>>
    /\ stage = "tick"
    /\ err = NoErr
    /\ ret = 0
    /\ checked \in BOOLEAN
    /\ hist = [ticks |-> 0]

AluTick ==
    /\ err = NoErr
    /\ last.op = "init"
    /\ \E s1 \in {Cpu_tick(Cur)} :
          /\ Install(s1)
          /\ ret' = IF s1.err = NoErr THEN s1.cyc ELSE ret
    /\ last' = [op |-> "Cpu_tick", opcode |-> last.opcode, x |-> last.x,
                cpu |-> cpu, mem |-> mem]
    /\ hist' = [hist EXCEPT !.ticks = @ + 1]

NextAlu == AluTick

SpecAlu == InitAlu /\ [][NextAlu]_vars

-----------------------------------------------------------------------------
(* Claims on the flags of the 8-bit arithmetic.                            *)

\* the opcodes of one operation: its block 2 row and its n8 form
AluRow(first, imm) == (first .. first + 7) \cup {imm}

\* the last step executed opcode `op` to its end
Executed(ops) == last.op = "Cpu_tick" /\ err = NoErr /\ last.opcode \in ops

\* C10: in every operand form, XOR leaves H = 0 and C = 0, AND leaves H = 1 and
\* C = 0, SUB, SBC, CP and DEC r8 leave N = 1, and ADD, ADC and INC r8 leave N = 0
C10_AluFlags ==
    /\ Executed(AluRow(\hA8, \hEE)) => ~cpu.f.half_carry /\ ~cpu.f.carry
    /\ Executed(AluRow(\hA0, \hE6)) => cpu.f.half_carry /\ ~cpu.f.carry
    /\ Executed(AluRow(\h90, \hD6) \cup AluRow(\h98, \hDE) \cup AluRow(\hB8, \hFE)
                  \cup AluDec) => cpu.f.sub
    /\ Executed(AluRow(\h80, \hC6) \cup AluRow(\h88, \hCE) \cup AluInc) => ~cpu.f.sub

\* AND of [hl] ran from a state with N, H clear and C set, and DEC [hl] ran
\* from a state with N clear
C10_Witness ==
    \/ /\ Executed({\hA6})
       /\ ~last.cpu.f.half_carry
       /\ last.cpu.f.carry
       /\ cpu.a = BitAnd(last.cpu.a, last.x)
       /\ ret = 2
    \/ /\ Executed({\h35})
       /\ ~last.cpu.f.sub
       /\ ret = 3

-----------------------------------------------------------------------------
(* Specification SpecEmu: Emulator::tick on a loaded image whose program   *)
(* sets TAC and then stores to DIV in a loop, by `ldh [n8], a` or by       *)
(* `inc [hl]` and `ld [hl], n8`.                                           *)

MaxEmuTicks == 40

EmuTacs == {\h00, \h05, \h07}
EmuBytes == {\h00, \h5A, \hFF}

\* 0100 ld a, tac; 0102 ldh [TAC], a; 0104 ld a, n; 0106 ldh [DIV], a;
\* 0108 nop; 0109 jr 0104
EmuProgramLdh(tac, n) ==
    (\h100 :> \h3E) @@ (\h101 :> tac) @@ (\h102 :> \hE0) @@ (\h103 :> \h07)
    @@ (\h104 :> \h3E) @@ (\h105 :> n) @@ (\h106 :> \hE0) @@ (\h107 :> \h04)
    @@ (\h108 :> \h00) @@ (\h109 :> \h18) @@ (\h10A :> \hF9)

\* 0100 ld a, tac; 0102 ldh [TAC], a; 0104 ld hl, DIV; 0107 inc [hl];
\* 0108 ld [hl], n; 010A jr 0107
EmuProgramHl(tac, n) ==
    (\h100 :> \h3E) @@ (\h101 :> tac) @@ (\h102 :> \hE0) @@ (\h103 :> \h07)
    @@ (\h104 :> \h21) @@ (\h105 :> \h04) @@ (\h106 :> \hFF) @@ (\h107 :> \h34)
    @@ (\h108 :> \h36) @@ (\h109 :> n) @@ (\h10A :> \h18) @@ (\h10B :> \hFB)

EmuPrograms ==
    {EmuProgramLdh(tac, n) : tac \in EmuTacs, n \in EmuBytes}
    \cup {EmuProgramHl(tac, n) : tac \in EmuTacs, n \in EmuBytes}

\* Emulator::new(), then load() of an image of one 16 KiB chunk
InitEmu ==
    /\ \E program \in EmuPrograms :
          /\ mem = Ram_load_mem(Ram_new_mem, <<program>>)
          /\ banks = Ram_load_banks(<<>>, <<program>>)
    /\ active_bank = 0
    /\ cpu = Cpu_new
    /\ timer = Timer_new
    /\ ppu = Ppu_new
    /\ serial = <<>>
    /\ debug_mode = FALSE
    /\ breakpoints = {}
    /\ stdin = <<>>
    /\ stage = "tick"
    /\ err = NoErr
    /\ ret = 0
    /\ checked \in BOOLEAN
    /\ last = [op |-> "init"]
    /\ hist = [ticks |-> 0]

\* one call of Emulator::tick; last keeps what DIV held when the CPU had run
\* and the timer had not yet
EmuTick ==
    /\ err = NoErr
    /\ hist.ticks < MaxEmuTicks
    /\ \E s1 \in {Emulator_tick(Cur)} :
          /\ Install(s1)
          /\ ret' = IF s1.err = NoErr THEN s1.cyc ELSE ret
    /\ last' = [op |-> "Emulator_tick", pc |-> cpu.pc, div |-> ArrGet(mem, DIV),
                cpu_div |-> ArrGet(Cpu_tick(Cur).mem, DIV)]
    /\ hist' = [hist EXCEPT !.ticks = @ + 1]

NextEmu == EmuTick

SpecEmu == InitEmu /\ [][NextEmu]_vars

-----------------------------------------------------------------------------
(* Claims on the DIV register.                                             *)

\* C3: in every state between ticks the DIV register holds the upper byte of
\* the timer's counter, also when the instruction of the last tick stored
\* another value to DIV
C3_DivIsCounterHigh == err = NoErr => ArrGet(mem, DIV) = timer.counter \div 256

\* the instruction of the last tick stored to DIV a value that is not the
\* counter's upper byte, which has left zero by then
C3_Witness ==
    /\ last.op = "Emulator_tick"
    /\ err = NoErr
    /\ last.cpu_div # last.div
    /\ last.cpu_div # timer.counter \div 256
    /\ timer.counter >= 256

-----------------------------------------------------------------------------
(* Specification SpecBus: reads and writes of the bus after Ram::new() and *)
(* load() of an image of one to four 16 KiB chunks; writes come from the   *)
(* CPU (CpuBus::write) and from the emulator and the PPU (Ram::write).     *)

MaxBusOps == 3

MaxChunks == 4

\* chunk j of the image: three cells that tell the chunks apart
BusChunk(j) == (0 :> (16 + j)) @@ (\h1234 :> j) @@ (\h3FFF :> (32 + j))
BusImage(n) == [j \in 1 .. n |-> BusChunk(j)]

\* work RAM and echo RAM stores, bank selections, and the fatal stores
BusDataWrites ==
    {<<\hC123, \hAB>>, <<\hE123, \h77>>, <<\hE321, \h77>>, <<\hC321, \hAB>>,
     <<\hFDFF, \hAB>>, <<\hDDFF, \h00>>, <<\hE000, \h77>>, <<\h8000, \h5A>>}
BusBankWrites ==
    {<<\h2000, \hE0>>, <<\h2000, \h01>>, <<\h2000, \h02>>, <<\h3FFF, \h23>>,
     <<\h2FFF, \h1F>>}
BusFatalWrites ==
    {<<\h0000, \h0A>>, <<\h1FFF, \h0A>>, <<\h4000, \h01>>, <<\h6000, \h01>>,
     <<\h7FFF, \hFF>>, <<DMA, \hC0>>}
BusWrites == BusDataWrites \cup BusBankWrites \cup BusFatalWrites
BusReads == {\h0000, \h4000, \h5234, \h7FFF, \hC123, \hE123, \hFDFF}

InitBus ==
    /\ \E n \in 1 .. MaxChunks :
          /\ mem = Ram_load_mem(Ram_new_mem, BusImage(n))
          /\ banks = Ram_load_banks(<<>>, BusImage(n))
    /\ active_bank = 0
    /\ cpu = Cpu_new
    /\ timer = Timer_new
    /\ ppu = Ppu_new
    /\ serial = <<>>
    /\ debug_mode = FALSE
    /\ breakpoints = {}
    /\ stdin = <<>>
    /\ stage = "tick"
    /\ err = NoErr
    /\ ret = 0
    /\ checked = TRUE
    /\ last = [op |-> "init"]
    /\ hist = [ops |-> 0]

BusStep(op, i, val) ==
    /\ err = NoErr
    /\ hist.ops < MaxBusOps
    /\ last' = [op |-> op, i |-> i, val |-> val, mem |-> mem, active_bank |-> active_bank]
    /\ hist' = [hist EXCEPT !.ops = @ + 1]

\* CpuBus::write(i, val)
BusWrite(i, val) ==
    /\ BusStep("CpuBus_write", i, val)
    /\ Install(CpuBus_write(Cur, i, val))
    /\ ret' = ret

\* Ram::write(i, val)
RamWrite(i, val) ==
    /\ BusStep("Ram_write", i, val)
    /\ Install(Ram_write(Cur, i, val))
    /\ ret' = ret

\* CpuBus::read(i): the byte is left in ret
BusRead(i) ==
    /\ BusStep("CpuBus_read", i, 0)
    /\ \E s1 \in {Cpu_read(Cur, i)} :
          /\ Install(s1)
          /\ ret' = IF s1.err = NoErr THEN s1.v ELSE ret

NextBus ==
    \/ \E w \in BusWrites : BusWrite(w[1], w[2])
    \/ \E w \in BusWrites : RamWrite(w[1], w[2])
    \/ \E i \in BusReads : BusRead(i)

SpecBus == InitBus /\ [][NextBus]_vars

-----------------------------------------------------------------------------
(* Claims on the bus.                                                      *)

\* the echo addresses looked at: the two ends of the range, the addresses the
\* writes use, and the echo of every work RAM cell that holds a value
EchoProbes ==
    {\hE000, \hE123, \hE321, \hFDFF}
    \cup {a \in DOMAIN mem : a >= \hE000 /\ a < \hFE00}
    \cup {a + \h2000 : a \in {x \in DOMAIN mem : x >= \hC000 /\ x < \hDE00}}

\* C4: every echo address a in [0xE000, 0xFE00) reads as a - 0x2000 does, on
\* both read paths, before and after every write
C4_EchoMirror ==
    \A a \in EchoProbes :
        /\ CpuBus_read(Cur, a) = CpuBus_read(Cur, a - \h2000)
        /\ Ram_read(Cur, a) = Ram_read(Cur, a - \h2000)

\* a store to the echo address 0xE321 is read back at 0xC321, after a store to
\* 0xC123 that is read back at 0xE123
C4_Witness ==
    /\ last.op \in {"CpuBus_write", "Ram_write"}
    /\ last.i = \hE321
    /\ ArrGet(last.mem, \hC321) = 0
    /\ CpuBus_read(Cur, \hC321) = \h77
    /\ CpuBus_read(Cur, \hE123) = \hAB

\* the last step was a write to the bank select range [0x2000, 0x4000)
BankSelected ==
    /\ last.op \in {"CpuBus_write", "Ram_write"}
    /\ last.i >= \h2000
    /\ last.i < \h4000
    /\ err = NoErr

\* the bank (counted from 0) that the value written selects
SelectedBank == IF last.val % 32 \in {0, 1} THEN 0 ELSE (last.val % 32) - 1

\* the offsets looked at in the window: its two ends and every cell that holds
\* a value in some bank
WindowProbes == {0, \h3FFF} \cup UNION {DOMAIN banks[j] : j \in 1 .. Len(banks)}

\* C5: after a write of v to [0x2000, 0x4000) the window reads bank 0 if
\* v & 0x1F is 0 or 1 and bank n - 1 if v & 0x1F = n >= 2, provided that bank is
\* loaded, and mem is as before the write
C5_BankSelect ==
    BankSelected =>
        /\ mem = last.mem
        /\ SelectedBank < Len(banks) =>
              \A k \in WindowProbes :
                  /\ ~CpuBus_read_panics(Cur, \h4000 + k)
                  /\ CpuBus_read(Cur, \h4000 + k) = ArrGet(banks[SelectedBank + 1], k)

\* bank 3 was selected from bank 0 on an image of four chunks, by a write of
\* 0x23 to 0x3FFF
C5_Witness ==
    /\ BankSelected
    /\ last.val = \h23
    /\ last.active_bank = 0
    /\ Len(banks) = 3
    /\ CpuBus_read(Cur, \h5234) = 4

-----------------------------------------------------------------------------
(* Specification SpecTimer05: Timer::tick with TAC = 0x05 from counter 0   *)
(* and TIMA 0, the t-cycles split into calls in every way the call sizes   *)
(* allow.                                                                  *)

MaxRunDots == 4200

RunTmas == {\h00, \h10, \hAB}
RunCycs == {1, 4, 24}

InitTimer05 ==
    /\ \E tma \in RunTmas :
          /\ mem = Poke(Ram_new_mem, (TAC :> \h05) @@ (TMA :> tma))
          /\ hist = [dots |-> 0, start |-> [counter |-> 0, tima |-> 0, tac |-> \h05]]
    /\ timer = Timer_new
    /\ banks = <<>>
    /\ active_bank = 0
    /\ cpu = Cpu_new
    /\ ppu = Ppu_new
    /\ serial = <<>>
    /\ debug_mode = FALSE
    /\ breakpoints = {}
    /\ stdin = <<>>
    /\ stage = "tick"
    /\ err = NoErr
    /\ ret = 0
    /\ checked = TRUE
    /\ last = [op |-> "init"]

NextTimer05 == \E t_cyc \in RunCycs : TimerAdvance(t_cyc, MaxRunDots)

SpecTimer05 == InitTimer05 /\ [][NextTimer05]_vars

-----------------------------------------------------------------------------
(* Claims on the timer.                                                    *)

\* the counter bit that TAC selects, as the register's description gives it
SelectedBit(tac) == <<10, 4, 6, 8>>[(tac % 4) + 1]

\* the last step advanced the enabled timer by one dot
SingleDot == last.op = "Timer_tick" /\ last.t_cyc = 1 /\ Bit(last.tac, 2) = 1

\* the selected bit before and after that dot
BitBefore == Bit(last.counter, SelectedBit(last.tac))
BitAfter == Bit(Wrap16(last.counter + 1), SelectedBit(last.tac))

\* what an increment of TIMA leaves in TIMA and IF, and what none leaves
TimaIncremented ==
    IF last.tima = 255
    THEN ArrGet(mem, TIMA) = last.tma /\ ArrGet(mem, IF_REG) = BitOr(last.if_, 4)
    ELSE ArrGet(mem, TIMA) = last.tima + 1 /\ ArrGet(mem, IF_REG) = last.if_
TimaKept == ArrGet(mem, TIMA) = last.tima /\ ArrGet(mem, IF_REG) = last.if_

\* C6 as stated: TIMA is incremented on a dot exactly when the selected bit
\* goes from 1 to 0
C6_Original ==
    SingleDot =>
        IF BitBefore = 1 /\ BitAfter = 0 THEN TimaIncremented ELSE TimaKept

\* C6: with the timer enabled, TIMA is incremented on a dot exactly when the
\* selected bit of the counter changes on that dot, from 1 to 0 or from 0 to 1
C6_BitChange ==
    SingleDot => IF BitBefore # BitAfter THEN TimaIncremented ELSE TimaKept

\* the dot from counter 15 to 16 with TAC = 0x05 took bit 4 from 0 to 1 and
\* TIMA from 0 to 1
C6_Witness ==
    /\ SingleDot
    /\ last.tac = \h05
    /\ last.counter = 15
    /\ BitBefore = 0
    /\ BitAfter = 1
    /\ last.tima = 0
    /\ ArrGet(mem, TIMA) = 1

\* the dots of the last advance on which the selected bit changed
ChangesInAdvance ==
    {j \in 0 .. last.t_cyc - 1 :
        Bit(Wrap16(last.counter + j), SelectedBit(last.tac))
            # Bit(Wrap16(last.counter + j + 1), SelectedBit(last.tac))}

\* the last advance of the enabled timer made exactly one increment
OneIncrement ==
    /\ last.op = "Timer_tick"
    /\ Bit(last.tac, 2) = 1
    /\ Cardinality(ChangesInAdvance) = 1

\* C7: an increment that finds TIMA = 0xFF leaves TIMA = TMA and IF bit 2 set
\* by the end of that advance; any other increment leaves TIMA + 1 and IF as
\* it was
C7_Overflow ==
    OneIncrement =>
        IF last.tima = \hFF
        THEN /\ ArrGet(mem, TIMA) = last.tma
             /\ Bit(ArrGet(mem, IF_REG), 2) = 1
             /\ \A b \in (0 .. 7) \ {2} : Bit(ArrGet(mem, IF_REG), b) = Bit(last.if_, b)
        ELSE /\ ArrGet(mem, TIMA) = last.tima + 1
             /\ ArrGet(mem, IF_REG) = last.if_

\* TIMA overflowed in an advance of four dots with TMA = 0x10 and IF bit 2
\* clear: TIMA holds 0x10 and IF bit 2 is set
C7_Witness ==
    /\ OneIncrement
    /\ last.t_cyc = 4
    /\ last.tima = \hFF
    /\ last.tma = \h10
    /\ Bit(last.if_, 2) = 0
    /\ ArrGet(mem, TIMA) = \h10
    /\ ArrGet(mem, IF_REG) = BitOr(last.if_, 4)

\* the run started from counter 0, TIMA 0 and TAC 0x05
Run05 == hist.start = [counter |-> 0, tima |-> 0, tac |-> \h05] /\ ArrGet(mem, TAC) = \h05

\* C8: with TAC = 0x05 from counter 0 and TIMA 0, after n < 4096 t-cycles,
\* however split into advances, TIMA = floor(n / 16)
C8_OncePer16 ==
    Run05 /\ hist.dots < 4096 => ArrGet(mem, TIMA) = hist.dots \div 16

\* 4095 t-cycles ran, the last advance of one dot, and TIMA is 255
C8_Witness ==
    /\ Run05
    /\ last.op = "Timer_tick"
    /\ last.t_cyc = 1
    /\ hist.dots = 4095
    /\ ArrGet(mem, TIMA) = 255

\* C9 as stated: after 4096 t-cycles TIMA is 0x10
C9_Original == Run05 /\ hist.dots = 4096 => ArrGet(mem, TIMA) = \h10

\* C9: with TAC = 0x05 from counter 0 and TIMA 0, after 4096 t-cycles TIMA has
\* overflowed once: it holds TMA and IF bit 2 is set
C9_ReloadOnce ==
    Run05 /\ hist.dots = 4096 =>
        /\ ArrGet(mem, TIMA) = ArrGet(mem, TMA)
        /\ Bit(ArrGet(mem, IF_REG), 2) = 1

\* 4096 t-cycles ran with TMA = 0xAB: TIMA is 0xAB
C9_Witness ==
    /\ Run05
    /\ hist.dots = 4096
    /\ timer.counter = 4096
    /\ ArrGet(mem, TMA) = \hAB
    /\ ArrGet(mem, TIMA) = \hAB

-----------------------------------------------------------------------------
(* Specification SpecArith: one Cpu::tick on ADC or SBC, in each operand   *)
(* form, on every accumulator, drawn operands and both carries.            *)

ArithAs == 0 .. 255
\* operands with every combination of six high and six low nibbles
ArithNibbles == {0, 1, 8, 9, 14, 15}
ArithBytes == {h * 16 + l : h \in {0, 3, 7, 8, 9, 15}, l \in ArithNibbles}

\* adc a, r8 / adc a, n8 and sbc a, r8 / sbc a, n8
AdcOps == AluRow(\h88, \hCE)
SbcOps == AluRow(\h98, \hDE)

InitArith ==
    /\ \E op \in AdcOps \cup SbcOps, a \in ArithAs, x \in ArithBytes, cy \in BOOLEAN :
          /\ cpu = [Cpu_new EXCEPT !.pc = AluPc, !.a = a,
                       !.f = Flags(FALSE, FALSE, FALSE, cy),
                       !.b = x, !.c = x, !.d = x, !.e = x,
                       !.h = IF UsesHL(op) THEN AluHl \div 256 ELSE x,
                       !.l = IF UsesHL(op) THEN AluHl % 256 ELSE x]
          /\ mem = Poke(Ram_new_mem,
                        (AluPc :> op) @@ (AluPc + 1 :> x) @@ (AluHl :> x))
          /\ last = [op |-> "init", opcode |-> op, x |-> x]
    /\ banks = <<>>
    /\ active_bank = 0
    /\ timer = Timer_new
    /\ ppu = Ppu_new
    /\ serial = <<>>
    /\ debug_mode = FALSE
    /\ breakpoints = {}
    /\ stdin = <<>>
    /\ stage = "tick"
    /\ err = NoErr
    /\ ret = 0
    /\ checked \in BOOLEAN
    /\ hist = [ticks |-> 0]

NextArith == AluTick

SpecArith == InitArith /\ [][NextArith]_vars

-----------------------------------------------------------------------------
(* Claims on ADC and SBC.                                                  *)

\* the operands of the instruction the last step executed: the accumulator a,
\* the operand b (the accumulator itself in the `a, a` form) and the carry-in
ArithA == last.cpu.a
ArithB == IF last.opcode \in AluBlock2 /\ last.opcode % 8 = 7 THEN last.cpu.a ELSE last.x
ArithC == IF last.cpu.f.carry THEN 1 ELSE 0

\* C11: ADC in its register, [hl] and n8 forms leaves A = (a + b + c) mod 256,
\* Z = (A = 0), N = 0, H = ((a & 0xF) + (b & 0xF) + c > 0xF) and
\* C = (a + b + c > 0xFF)
C11_Adc ==
    last.op = "Cpu_tick" /\ last.opcode \in AdcOps =>
        /\ err = NoErr
        /\ cpu.a = (ArithA + ArithB + ArithC) % 256
        /\ cpu.f.zero = (cpu.a = 0)
        /\ cpu.f.sub = FALSE
        /\ cpu.f.half_carry = ((ArithA % 16) + (ArithB % 16) + ArithC > 15)
        /\ cpu.f.carry = (ArithA + ArithB + ArithC > 255)

\* adc a, [hl] ran on a = 0xFF, b = 0x00 with the carry set: A = 0 and Z, H, C
\* are set, the carry and the half carry coming from the carry-in alone
C11_Witness ==
    /\ Executed({\h8E})
    /\ ArithA = \hFF
    /\ ArithB = \h00
    /\ ArithC = 1
    /\ cpu.a = 0
    /\ cpu.f = Flags(TRUE, FALSE, TRUE, TRUE)

\* C12: SBC in its register, [hl] and n8 forms leaves A = (a - b - c) mod 256,
\* Z = (A = 0), N = 1, H = ((a & 0xF) < (b & 0xF) + c) and C = (a < b + c), and
\* does not panic
C12_Sbc ==
    last.op = "Cpu_tick" /\ last.opcode \in SbcOps =>
        /\ err = NoErr
        /\ cpu.a = (ArithA - ArithB - ArithC + 512) % 256
        /\ cpu.f.zero = (cpu.a = 0)
        /\ cpu.f.sub = TRUE
        /\ cpu.f.half_carry = ((ArithA % 16) < (ArithB % 16) + ArithC)
        /\ cpu.f.carry = (ArithA < ArithB + ArithC)

\* sbc a, n8 ran on a = 0x10, b = 0x0F with the carry set, in a build with
\* overflow checks: A = 0 and Z, N, H are set, the half borrow coming from
\* (b & 0xF) + c = 0x10
C12_Witness ==
    /\ Executed({\hDE})
    /\ checked
    /\ ArithA = \h10
    /\ ArithB = \h0F
    /\ ArithC = 1
    /\ cpu.a = 0
    /\ cpu.f = Flags(TRUE, TRUE, TRUE, FALSE)

-----------------------------------------------------------------------------
(* Specification SpecBcd: ADD A, b and then DAA, on every pair of packed   *)
(* BCD bytes, b given as n8 or in register B.                              *)

BcdDigits == 0 .. 9
BcdBytes == {h * 16 + l : h \in BcdDigits, l \in BcdDigits}
BcdAdds == {\hC6, \h80}

\* at AluPc: add a, n8 (or add a, b and a nop), then daa
BcdProgram(op, b) ==
    IF op = \hC6
    THEN (AluPc :> \hC6) @@ (AluPc + 1 :> b) @@ (AluPc + 2 :> \h27)
    ELSE (AluPc :> \h80) @@ (AluPc + 1 :> \h27)

InitBcd ==
    /\ \E op \in BcdAdds, a \in BcdBytes, b \in BcdBytes, f \in {\h00, \hF0} :
          /\ cpu = [Cpu_new EXCEPT !.pc = AluPc, !.a = a, !.b = b, !.f = Flag_from_u8(f)]
          /\ mem = Poke(Ram_new_mem, BcdProgram(op, b))
          /\ hist = [ticks |-> 0, a |-> a, b |-> b]
    /\ banks = <<>>
    /\ active_bank = 0
    /\ timer = Timer_new
    /\ ppu = Ppu_new
    /\ serial = <<>>
    /\ debug_mode = FALSE
    /\ breakpoints = {}
    /\ stdin = <<>>
    /\ stage = "tick"
    /\ err = NoErr
    /\ ret = 0
    /\ checked \in BOOLEAN
    /\ last = [op |-> "init"]

NextBcd == CpuTick

SpecBcd == InitBcd /\ [][NextBcd]_vars

-----------------------------------------------------------------------------
(* Claims on DAA.                                                          *)

\* the number a packed BCD byte stands for, and the packed BCD byte of a
\* number below 100
BcdValue(x) == 10 * (x \div 16) + (x % 16)
BcdByte(n) == 16 * (n \div 10) + (n % 10)

\* the ADD and the DAA have both run
BcdAdjusted == hist.ticks = 2 /\ last.op = "Cpu_tick"

\* C13: for packed BCD bytes a and b, ADD A, b with A = a and then DAA leave A
\* the packed BCD byte of (a + b) mod 100, C = (a + b >= 100) in decimal,
\* H = 0 and Z = (A = 0)
C13_DaaAfterAdd ==
    BcdAdjusted =>
        /\ err = NoErr
        /\ cpu.a = BcdByte((BcdValue(hist.a) + BcdValue(hist.b)) % 100)
        /\ cpu.f.carry = (BcdValue(hist.a) + BcdValue(hist.b) >= 100)
        /\ cpu.f.half_carry = FALSE
        /\ cpu.f.zero = (cpu.a = 0)

\* 0x45 + 0x38: the ADD left 0x7D, the DAA leaves 0x83 with C clear
C13_Witness ==
    /\ BcdAdjusted
    /\ hist.a = \h45
    /\ hist.b = \h38
    /\ last.cpu.a = \h7D
    /\ cpu.a = \h83
    /\ ~cpu.f.carry

-----------------------------------------------------------------------------
(* Specification SpecStack: two ticks of Cpu::tick on a loaded image that  *)
(* holds either PUSH r16; POP r16 or POP AF; PUSH AF at 0x0100, with the   *)
(* stack in writable memory.                                               *)

\* push bc / de / hl / af; the matching pop is the opcode minus 4
StackPushes == {\hC5, \hD5, \hE5, \hF5}
StackWords == {\h0000, \h1234, \h80F0, \hFFFF}
\* SP with the two bytes below it in video RAM, work RAM, echo RAM, the I/O
\* registers and high RAM
StackSps == {\h8002, \hC100, \hD000, \hE002, \hFE01, \hFF48, \hFFFE, \hFFFF}
\* SP for a pop: the two bytes at it in work RAM, echo RAM and high RAM
StackPopSps == {\hC000, \hDFFE, \hE010, \hFFFC}
\* the cell that holds the byte the guest sees at address i
StackCell(i) == IF InEcho(i) THEN i - \h2000 ELSE i
StackBytes == 0 .. 255

\* PUSH r16; POP r16 with every register pair holding `word`
InitPushPop ==
    \E op \in StackPushes, word \in StackWords, sp \in StackSps :
        /\ cpu = [Cpu_new EXCEPT !.sp = sp,
                     !.a = word \div 256, !.f = Flag_from_u8(word % 256),
                     !.b = word \div 256, !.c = word % 256,
                     !.d = word \div 256, !.e = word % 256,
                     !.h = word \div 256, !.l = word % 256]
        /\ mem = Ram_load_mem(Ram_new_mem, << (\h100 :> op) @@ (\h101 :> (op - 4)) >>)
        /\ hist = [ticks |-> 0, kind |-> "push_pop", r |-> (op \div 16) % 4,
                   word |-> word, sp |-> sp]

\* POP AF; PUSH AF with the byte v at SP and the byte a above it
InitPopPush ==
    \E v \in StackBytes, a \in {\h00, \hA5}, sp \in StackPopSps :
        /\ cpu = [Cpu_new EXCEPT !.sp = sp]
        /\ mem = Poke(Ram_load_mem(Ram_new_mem, << (\h100 :> \hF1) @@ (\h101 :> \hF5) >>),
                      (StackCell(sp) :> v) @@ (StackCell(sp + 1) :> a))
        /\ hist = [ticks |-> 0, kind |-> "pop_push", v |-> v, a |-> a, sp |-> sp]

InitStack ==
    /\ InitPushPop \/ InitPopPush
    /\ banks = <<>>
    /\ active_bank = 0
    /\ timer = Timer_new
    /\ ppu = Ppu_new
    /\ serial = <<>>
    /\ debug_mode = FALSE
    /\ breakpoints = {}
    /\ stdin = <<>>
    /\ stage = "tick"
    /\ err = NoErr
    /\ ret = 0
    /\ checked \in BOOLEAN
    /\ last = [op |-> "init"]

NextStack == CpuTick

SpecStack == InitStack /\ [][NextStack]_vars

-----------------------------------------------------------------------------
(* Claims on the stack.                                                    *)

\* the register pair r of PUSH and POP as the guest sees it: high and low byte
StackPair(c, r) ==
    CASE r = 0 -> <<c.b, c.c>>
      [] r = 1 -> <<c.d, c.e>>
      [] r = 2 -> <<c.h, c.l>>
      [] r = 3 -> <<c.a, c.f>>

\* C14: PUSH r16 takes SP down by 2 and POP r16 takes it up by 2 again, and
\* after the two r16 and SP are what they were before the PUSH, for BC, DE, HL
\* and AF and every SP with the two bytes below it in writable memory
C14_PushPop ==
    hist.kind = "push_pop" =>
        /\ err = NoErr
        /\ hist.ticks = 1 =>
              /\ cpu.sp = hist.sp - 2
              /\ CpuBus_read(Cur, hist.sp - 1) = StackPair(last.cpu, hist.r)[1]
        /\ hist.ticks = 2 =>
              /\ cpu.sp = hist.sp
              /\ last.cpu.sp = hist.sp - 2
              /\ StackPair(cpu, hist.r)
                    = <<hist.word \div 256,
                        IF hist.r = 3 THEN Flag_from_u8(hist.word % 256) ELSE hist.word % 256>>

\* PUSH DE; POP DE ran with DE = 0x1234 and the stack in echo RAM, in a build
\* with overflow checks
C14_Witness ==
    /\ hist.kind = "push_pop"
    /\ hist.ticks = 2
    /\ hist.r = 1
    /\ hist.word = \h1234
    /\ hist.sp = \hE002
    /\ checked
    /\ cpu.d = \h12
    /\ cpu.e = \h34
    /\ ArrGet(mem, \hC000) = \h34

\* C15: POP AF takes Z, N, H, C from bits 7, 6, 5, 4 of the byte v it pops and
\* drops bits 3..0; the PUSH AF after it stores v & 0xF0
C15_FlagByte ==
    hist.kind = "pop_push" =>
        /\ err = NoErr
        /\ hist.ticks >= 1 =>
              /\ cpu.f.zero = (Bit(hist.v, 7) = 1)
              /\ cpu.f.sub = (Bit(hist.v, 6) = 1)
              /\ cpu.f.half_carry = (Bit(hist.v, 5) = 1)
              /\ cpu.f.carry = (Bit(hist.v, 4) = 1)
              /\ cpu.a = hist.a
        /\ hist.ticks = 2 =>
              /\ cpu.sp = hist.sp
              /\ CpuBus_read(Cur, hist.sp) = 16 * (hist.v \div 16)
              /\ CpuBus_read(Cur, hist.sp) % 16 = 0
              /\ CpuBus_read(Cur, hist.sp + 1) = hist.a

\* POP AF popped 0x5F and PUSH AF stored 0x50 in its place
C15_Witness ==
    /\ hist.kind = "pop_push"
    /\ hist.ticks = 2
    /\ hist.v = \h5F
    /\ hist.sp = \hFFFC
    /\ ArrGet(last.mem, hist.sp) = \h5F
    /\ ArrGet(mem, hist.sp) = \h50

-----------------------------------------------------------------------------
(* Specification SpecEi: three ticks of Cpu::tick on a loaded image that   *)
(* holds EI or DI at 0x0100 and a second instruction after it, from drawn  *)
(* IME, IF and IE.                                                         *)

MaxEiTicks == 3

EI_OP == \hFB
DI_OP == \hF3
EiFirsts == {EI_OP, DI_OP}
\* nop, inc b, stop, ld a,n8, halt, push bc, ldh (n8),a, di, ei
EiSeconds == {\h00, \h04, \h10, \h3E, \h76, \hC5, \hE0, DI_OP, EI_OP}
\* the operand byte of the second instruction: the low byte of IF's address
EiOperand == \h0F
EiIfs == {\hE0, \hE1, \hE4, \hFA}
EiIes == {\h00, \h04, \h1F}

InitEi ==
    /\ \E first \in EiFirsts, second \in EiSeconds, ime \in IntImes,
          if_ \in EiIfs, ie \in EiIes :
          /\ cpu = [Cpu_new EXCEPT !.ime = ime]
          /\ mem = Poke(Ram_load_mem(Ram_new_mem,
                            << (\h100 :> first) @@ (\h101 :> second) @@ (\h102 :> EiOperand) >>),
                        (IF_REG :> if_) @@ (IE :> ie))
          /\ hist = [ticks |-> 0, first |-> first, second |-> second, ime |-> ime,
                     if_ |-> if_, ie |-> ie]
    /\ banks = <<>>
    /\ active_bank = 0
    /\ timer = Timer_new
    /\ ppu = Ppu_new
    /\ serial = <<>>
    /\ debug_mode = FALSE
    /\ breakpoints = {}
    /\ stdin = <<>>
    /\ stage = "tick"
    /\ err = NoErr
    /\ ret = 0
    /\ checked \in BOOLEAN
    /\ last = [op |-> "init"]

\* one call of Cpu::tick; last keeps the state the call started from
EiTick ==
    /\ err = NoErr
    /\ hist.ticks < MaxEiTicks
    /\ \E s1 \in {Cpu_tick(Cur)} :
          /\ Install(s1)
          /\ ret' = IF s1.err = NoErr THEN s1.cyc ELSE ret
    /\ last' = [op |-> "Cpu_tick", cpu |-> cpu, mem |-> mem, active_bank |-> active_bank]
    /\ hist' = [hist EXCEPT !.ticks = @ + 1]

NextEi == EiTick

SpecEi == InitEi /\ [][NextEi]_vars

-----------------------------------------------------------------------------
(* Claims on EI and DI.                                                    *)

\* the first tick executed EI with IME disabled
EiRan == hist.first = EI_OP /\ hist.ime = "Disabled"

\* bytes and machine cycles of the second instruction
EiLen(op) == IF op \in {\h3E, \hE0} THEN 2 ELSE 1
EiCycles(op) ==
    CASE op \in {\h3E} -> 2
      [] op \in {\hE0} -> 3
      [] op \in {\hC5} -> 4
      [] OTHER -> 1

\* the tick after EI ran the second instruction and nothing else
SecondRan ==
    /\ err = NoErr
    /\ last.cpu.ime = "Pending"
    /\ ret = EiCycles(hist.second)
    /\ cpu.pc = \h101 + EiLen(hist.second)
    /\ cpu.sp = IF hist.second = \hC5 THEN \hFFFC ELSE \hFFFE
    /\ cpu.b = IF hist.second = \h04 THEN 1 ELSE 0
    /\ cpu.a = IF hist.second = \h3E THEN EiOperand ELSE 1
    /\ cpu.halted = (hist.second = \h76)
    /\ ArrGet(mem, IF_REG) = IF hist.second = \hE0 THEN 1 ELSE hist.if_
    /\ ArrGet(mem, IE) = hist.ie
    /\ cpu.ime = CASE hist.second = DI_OP -> "Disabled"
                   [] hist.second = EI_OP -> "Pending"
                   [] OTHER -> "Enabled"

\* the second instruction left IME enabled and IF and IE as they were
SecondKept ==
    /\ last.cpu.ime = "Enabled"
    /\ ArrGet(last.mem, IF_REG) = hist.if_
    /\ ArrGet(last.mem, IE) = hist.ie

\* the last tick executed DI: it was not stopped, not left idle in halt, and
\* did not dispatch
DiRan ==
    /\ last.op = "Cpu_tick"
    /\ ArrGet(last.mem, last.cpu.pc) = DI_OP
    /\ ~last.cpu.stopped
    /\ last.cpu.halted => PendingBits # {}
    /\ ~(last.cpu.ime = "Enabled" /\ PendingBits # {})

\* C16: the tick that executes EI with IME disabled leaves IME pending; the
\* tick after it executes the next instruction without a dispatch, whatever IF
\* and IE hold, and IME is enabled in it; the tick after that dispatches the
\* pending interrupt when the instruction between left IME, IF and IE alone;
\* the tick that executes DI leaves IME disabled
C16_EiDelay ==
    /\ EiRan /\ hist.ticks = 1 =>
          /\ err = NoErr
          /\ cpu = [last.cpu EXCEPT !.ime = "Pending", !.pc = \h101]
          /\ mem = last.mem
          /\ ret = 1
    /\ EiRan /\ hist.ticks = 2 => SecondRan
    /\ EiRan /\ hist.ticks = 3 /\ SecondKept /\ PendingBits # {} => DispatchEffect
    /\ EiRan /\ hist.ticks = 3 /\ SecondKept /\ PendingBits = {} =>
          /\ cpu.sp = last.cpu.sp
          /\ cpu.ime = "Enabled"
    /\ DiRan => err = NoErr /\ cpu.ime = "Disabled" /\ ret = 1

\* EI, then INC B with the timer interrupt pending, then the dispatch to 0x50
\* with the address after INC B on the stack
C16_Witness ==
    /\ EiRan
    /\ hist.ticks = 3
    /\ hist.second = \h04
    /\ hist.if_ = \hE4
    /\ hist.ie = \h1F
    /\ cpu.b = 1
    /\ cpu.pc = \h50
    /\ cpu.ime = "Disabled"
    /\ ArrGet(mem, \hFFFC) = \h02
    /\ ArrGet(mem, \hFFFD) = \h01
    /\ ArrGet(mem, IF_REG) = \hE0

-----------------------------------------------------------------------------
(* Claims on HALT, checked under SpecInt.                                  *)

\* the last step was a tick entered halted and not stopped
HaltedCase ==
    /\ last.op = "Cpu_tick"
    /\ last.cpu.halted
    /\ ~last.cpu.stopped

\* the IME the instruction at the entry PC leaves: EI asks for it, NOP keeps
\* what the promotion of a pending IME left
ResumedIme ==
    IF ArrGet(last.mem, last.cpu.pc) = EI_OP THEN "Pending"
    ELSE IF last.cpu.ime = "Pending" THEN "Enabled" ELSE last.cpu.ime

\* C17: a tick entered halted with IF & IE & 0x1F = 0 returns 1 and changes
\* neither the CPU (registers, PC, SP, IME, halted) nor the bus; entered with
\* IF & IE & 0x1F # 0 it clears halted whatever IME is, and with IME not
\* enabled it executes the instruction at PC, the one after HALT, and
\* dispatches nothing
C17_Halt ==
    /\ HaltedCase /\ PendingBits = {} =>
          /\ err = NoErr
          /\ ret = 1
          /\ cpu = last.cpu
          /\ mem = last.mem
          /\ active_bank = last.active_bank
    /\ HaltedCase /\ PendingBits # {} => ~cpu.halted
    /\ HaltedCase /\ PendingBits # {} /\ last.cpu.ime # "Enabled" =>
          /\ err = NoErr
          /\ ret = 1
          /\ cpu = [last.cpu EXCEPT !.halted = FALSE, !.pc = last.cpu.pc + 1,
                                    !.ime = ResumedIme]
          /\ mem = last.mem
          /\ active_bank = last.active_bank

\* a CPU halted with IME disabled idled for one tick with only a masked
\* request in IF
C17_WitnessIdle ==
    /\ HaltedCase
    /\ hist.ticks = 2
    /\ last.cpu.ime = "Disabled"
    /\ ArrGet(last.mem, IF_REG) = \hE4
    /\ ArrGet(last.mem, IE) = \hE0
    /\ cpu.halted
    /\ ret = 1

\* a CPU halted with IME disabled woke on the timer request and executed the
\* EI at PC
C17_Witness ==
    /\ HaltedCase
    /\ last.cpu.ime = "Disabled"
    /\ PendingBits = {2}
    /\ ArrGet(last.mem, last.cpu.pc) = EI_OP
    /\ ~cpu.halted
    /\ cpu.ime = "Pending"
    /\ cpu.pc = last.cpu.pc + 1

-----------------------------------------------------------------------------
(* Specification SpecLcd: Ppu::tick dot by dot, from the state the PPU has *)
(* after a whole number of scanlines from reset; the guest may switch the  *)
(* LCD off and on (a store to LCDC) and clear IF bit 0 between calls.      *)

MaxLcdDots == 5600

\* scanlines run before the first state: none, or up to the start of line 142
LcdLeads == {0, 142}
\* calls of half a scanline
HalfLine == SCANLINE_DOTS \div 2
\* LCDC as stored by the guest: LCD off with the background bit kept, and the
\* reset value
LcdcValues == {\h11, \h91}
\* dots of a call entered with the LCD off
LcdOffDots == {1, 77, 255}

\* Emulator::new(), then SCX, one tile row and one object stored by the guest
LcdReset ==
    [mem |-> Poke(Ram_new_mem, (SCX :> 5) @@ (\h8000 :> \h3C) @@ (\hFE00 :> 158)
                                  @@ (\hFE01 :> 20)),
     banks |-> <<>>, active_bank |-> 0, cpu |-> Cpu_new, timer |-> Timer_new,
     ppu |-> Ppu_new, serial |-> <<>>, debug_mode |-> FALSE, breakpoints |-> {},
     stdin |-> <<>>, err |-> NoErr, checked |-> TRUE, v |-> 0, cyc |-> 0]

\* n calls of Ppu::tick of half a scanline each
RECURSIVE LcdLead(_, _)
LcdLead(s, n) ==
    IF n = 0 THEN s
    ELSE IF n = 1 THEN Ppu_tick(s, HalfLine)
    ELSE Then(LcdLead(s, n \div 2), LAMBDA half :
            IF half.err = NoErr THEN LcdLead(half, n - (n \div 2)) ELSE half)

InitLcd ==
    /\ \E lead \in LcdLeads :
       \E s0 \in {LcdLead(LcdReset, 2 * lead)} :
          /\ mem = s0.mem
          /\ ppu = s0.ppu
          /\ err = s0.err
          /\ hist = [dots |-> 0, lead |-> lead, vbl |-> Never]
    /\ banks = <<>>
    /\ active_bank = 0
    /\ cpu = Cpu_new
    /\ timer = Timer_new
    /\ serial = <<>>
    /\ debug_mode = FALSE
    /\ breakpoints = {}
    /\ stdin = <<>>
    /\ stage = "tick"
    /\ ret = 0
    /\ checked = TRUE
    /\ last = [op |-> "init"]

LcdOn(m) == Bit(ArrGet(m, LCDC), 7) = 1

\* hist after a call that advanced `dots` dots and led to s1
LcdHist(s1, dots) ==
    [hist EXCEPT !.dots = @ + dots,
                 !.vbl = IF ppu.mode = "Mode0" /\ s1.ppu.mode = "Mode1"
                         THEN hist.dots + dots ELSE @]

\* one call of Ppu::tick: a single dot with the LCD on
LcdTick ==
    /\ err = NoErr
    /\ LcdOn(mem)
    /\ hist.dots < MaxLcdDots
    /\ \E s1 \in {Ppu_tick(Cur, 1)} :
          /\ Install(s1)
          /\ hist' = LcdHist(s1, 1)
    /\ ret' = ret
    /\ last' = [op |-> "Ppu_tick", dots |-> 1, mem |-> mem, ppu |-> ppu]

\* one call of Ppu::tick entered with the LCD off
LcdTickOff(dots) ==
    /\ err = NoErr
    /\ ~LcdOn(mem)
    /\ \E s1 \in {Ppu_tick(Cur, dots)} : Install(s1)
    /\ ret' = ret
    /\ last' = [op |-> "Ppu_tick", dots |-> dots, mem |-> mem, ppu |-> ppu]
    /\ hist' = hist

\* the guest stores LCDC
GuestLcdc(val) ==
    /\ err = NoErr
    /\ ArrGet(mem, LCDC) # val
    /\ Install(CpuBus_write(Cur, LCDC, val))
    /\ ret' = ret
    /\ last' = [op |-> "CpuBus_write", addr |-> LCDC]
    /\ hist' = hist

\* the guest acknowledges VBlank while the LCD is on
LcdAckVBlank ==
    /\ err = NoErr
    /\ LcdOn(mem)
    /\ Bit(ArrGet(mem, IF_REG), 0) = 1
    /\ Install(CpuBus_write(Cur, IF_REG, BitAnd(Ram_read(Cur, IF_REG), 254)))
    /\ ret' = ret
    /\ last' = [op |-> "CpuBus_write", addr |-> IF_REG]
    /\ hist' = hist

NextLcd ==
    \/ LcdTick
    \/ \E dots \in LcdOffDots : LcdTickOff(dots)
    \/ \E val \in LcdcValues : GuestLcdc(val)
    \/ LcdAckVBlank

SpecLcd == InitLcd /\ [][NextLcd]_vars

-----------------------------------------------------------------------------
(* Claims on the LCD switch and on VBlank.                                 *)

\* the last step was a PPU advance entered with LCDC bit 7 clear / set
AdvanceOff == last.op = "Ppu_tick" /\ ~LcdOn(last.mem)
AdvanceOn == last.op = "Ppu_tick" /\ LcdOn(last.mem)

\* C18: a PPU advance entered with LCDC bit 7 = 0 changes nothing, whatever the
\* number of dots: mode, dot counter, fetcher (with its object list and
\* framebuffer), LY, IF and the rest of memory stay as they were
C18_LcdOff ==
    AdvanceOff =>
        /\ err = NoErr
        /\ ppu = last.ppu
        /\ mem = last.mem

\* an advance of 255 dots with the LCD switched off in the middle of Mode3 of
\* line 142, pixels already pushed
C18_Witness ==
    /\ AdvanceOff
    /\ last.dots = 255
    /\ ppu.mode = "Mode3"
    /\ ppu.fetcher.x > 40
    /\ ArrGet(mem, LY) = 142
    /\ ppu.counter = last.ppu.counter

\* the last dot ended scanline 143
EndOf143 ==
    /\ AdvanceOn
    /\ last.ppu.mode = "Mode0"
    /\ last.ppu.counter = SCANLINE_DOTS - 1
    /\ ArrGet(last.mem, LY) = 143

\* dots advanced since VBlank was entered
SinceVBlank == hist.dots - hist.vbl

\* C19: the PPU sets IF bit 0 in the dot that ends scanline 143, where LY goes
\* from 143 to 144 and the mode from Mode0 to Mode1, and in no other dot, and
\* changes no other bit of IF; Mode1 then lasts 10 scanlines of 456 dots, LY
\* counting 144..153, and ends with LY = 0 in Mode2
C19_VBlank ==
    /\ EndOf143 =>
          /\ ppu.mode = "Mode1"
          /\ ArrGet(mem, LY) = 144
          /\ Bit(ArrGet(mem, IF_REG), 0) = 1
    /\ AdvanceOn /\ ~EndOf143 => ArrGet(mem, IF_REG) = ArrGet(last.mem, IF_REG)
    /\ AdvanceOn => \A b \in 1 .. 7 : Bit(ArrGet(mem, IF_REG), b) = Bit(ArrGet(last.mem, IF_REG), b)
    /\ AdvanceOn /\ last.ppu.mode = "Mode0" /\ ArrGet(last.mem, LY) = 143 /\ ~EndOf143 =>
          ppu.mode = "Mode0" /\ ArrGet(mem, LY) = 143
    /\ ppu.mode = "Mode1" =>
          /\ hist.vbl # Never
          /\ SinceVBlank < 10 * SCANLINE_DOTS
          /\ ArrGet(mem, LY) = 144 + SinceVBlank \div SCANLINE_DOTS
          /\ ppu.counter = SinceVBlank % SCANLINE_DOTS
    /\ AdvanceOn /\ last.ppu.mode = "Mode1" /\ ppu.mode # "Mode1" =>
          /\ SinceVBlank = 10 * SCANLINE_DOTS
          /\ ppu.mode = "Mode2"
          /\ ArrGet(mem, LY) = 0
    /\ AdvanceOn /\ ppu.mode = "Mode1" => last.ppu.mode = "Mode1" \/ EndOf143

\* VBlank was entered with IF bit 0 acknowledged before, and left 4560 dots
\* later for line 0
C19_Witness ==
    /\ AdvanceOn
    /\ last.ppu.mode = "Mode1"
    /\ ArrGet(last.mem, LY) = 153
    /\ ppu.mode = "Mode2"
    /\ ArrGet(mem, LY) = 0
    /\ SinceVBlank = 4560
    /\ hist.lead = 142

\* the dot that ends scanline 143 raised IF bit 0 from 0
C19_WitnessRise ==
    /\ EndOf143
    /\ Bit(ArrGet(last.mem, IF_REG), 0) = 0
    /\ Bit(ArrGet(mem, IF_REG), 0) = 1

-----------------------------------------------------------------------------
(* Specification SpecSer: Emulator::tick on a loaded image whose program   *)
(* stores a byte to SB and then stores to SC in a loop.                    *)

MaxSerTicks == 10

SerSbs == {\h00, \h41, \h7F, \h80, \hE9, \hFF}
SerScs == {\h00, \h01, \h7E, \h80, \h81, \hFF}
\* the address of the store to SC in the program
SerStore == \h106

\* 0100 ld a, sb; 0102 ldh [SB], a; 0104 ld a, sc; 0106 ldh [SC], a;
\* 0108 nop; 0109 jr 0104
SerProgram(sb, sc) ==
    (\h100 :> \h3E) @@ (\h101 :> sb) @@ (\h102 :> \hE0) @@ (\h103 :> \h01)
    @@ (\h104 :> \h3E) @@ (\h105 :> sc) @@ (\h106 :> \hE0) @@ (\h107 :> \h02)
    @@ (\h108 :> \h00) @@ (\h109 :> \h18) @@ (\h10A :> \hF9)

\* Emulator::new(), then load() of an image of one 16 KiB chunk
InitSer ==
    /\ \E sb \in SerSbs, sc \in SerScs :
          /\ mem = Ram_load_mem(Ram_new_mem, << SerProgram(sb, sc) >>)
          /\ hist = [ticks |-> 0, sb |-> sb, sc |-> sc, requests |-> 0]
    /\ banks = <<>>
    /\ active_bank = 0
    /\ cpu = Cpu_new
    /\ timer = Timer_new
    /\ ppu = Ppu_new
    /\ serial = <<>>
    /\ debug_mode = FALSE
    /\ breakpoints = {}
    /\ stdin = <<>>
    /\ stage = "tick"
    /\ err = NoErr
    /\ ret = 0
    /\ checked \in BOOLEAN
    /\ last = [op |-> "init"]

\* one call of Emulator::tick; last keeps SB and SC as the instruction of the
\* tick left them and the output so far; hist counts the guest's stores to SC
\* with bit 7 set
SerTick ==
    /\ err = NoErr
    /\ hist.ticks < MaxSerTicks
    /\ \E s1 \in {Emulator_tick(Cur)} :
          /\ Install(s1)
          /\ ret' = IF s1.err = NoErr THEN s1.cyc ELSE ret
    /\ \E s2 \in {Cpu_tick(Cur)} :
          last' = [op |-> "Emulator_tick", sb |-> ArrGet(s2.mem, SB),
                   sc |-> ArrGet(s2.mem, SC), serial |-> serial]
    /\ hist' = [hist EXCEPT !.ticks = @ + 1,
                            !.requests = IF cpu.pc = SerStore /\ Bit(hist.sc, 7) = 1
                                         THEN @ + 1 ELSE @]

NextSer == SerTick

SpecSer == InitSer /\ [][NextSer]_vars

-----------------------------------------------------------------------------
(* Claims on the serial console.                                           *)

\* the last tick found SC bit 7 set / clear when the CPU, the timer and the PPU
\* had run
TransferAsked == last.op = "Emulator_tick" /\ err = NoErr /\ Bit(last.sc, 7) = 1
TransferIdle == last.op = "Emulator_tick" /\ err = NoErr /\ Bit(last.sc, 7) = 0

\* C20 as stated: a tick that ends with SC bit 7 set emits exactly one byte, the
\* value of SB, and clears SC bit 7 leaving the other bits of SC; a tick that
\* ends with SC bit 7 clear emits nothing; so the output holds one byte for
\* every store of the guest to SC with bit 7 set
C20_Original ==
    /\ TransferAsked =>
          /\ serial = Append(last.serial, last.sb)
          /\ ArrGet(mem, SC) = last.sc - 128
    /\ TransferIdle =>
          /\ serial = last.serial
          /\ ArrGet(mem, SC) = last.sc
    /\ err = NoErr => Len(serial) = hist.requests

\* what the code does: the transfer emits one character, which is one byte only
\* for SB below 0x80; SC is handled as the claim says
C20_OneChar ==
    /\ TransferAsked =>
          /\ serial = last.serial \o Print_char(last.sb)
          /\ Len(Print_char(last.sb)) = IF last.sb < 128 THEN 1 ELSE 2
          /\ ArrGet(mem, SC) = last.sc - 128
    /\ TransferIdle =>
          /\ serial = last.serial
          /\ ArrGet(mem, SC) = last.sc
    /\ err = NoErr /\ hist.sb < 128 => Len(serial) = hist.requests
    /\ err = NoErr /\ hist.sb >= 128 => Len(serial) = 2 * hist.requests

\* the guest stored 0x81 to SC with SB = 0xE9 and two bytes came out
C20_TwoBytes ==
    /\ TransferAsked
    /\ last.sb = \hE9
    /\ last.sc = \h81
    /\ last.serial = <<>>
    /\ serial = << \hC3, \hA9 >>
    /\ ArrGet(mem, SC) = \h01

-----------------------------------------------------------------------------
(* Specification SpecOrd: Emulator::tick on a loaded image whose program   *)
(* stores two drawn values to LCDC in a loop, between instructions of one  *)
(* to four machine cycles.                                                 *)

MaxOrdTicks == 14

\* LCDC as the program stores it: LCD off, LCD off with the background bit,
\* and the reset value
OrdLcdcs == {\h00, \h11, \h91}

\* 0100 ld a, v1; 0102 ldh [LCDC], a; 0104 push bc; 0105 ld a, v2;
\* 0107 ldh [LCDC], a; 0109 nop; 010A jr 0100
OrdProgram(v1, v2) ==
    (\h100 :> \h3E) @@ (\h101 :> v1) @@ (\h102 :> \hE0) @@ (\h103 :> \h40)
    @@ (\h104 :> \hC5) @@ (\h105 :> \h3E) @@ (\h106 :> v2) @@ (\h107 :> \hE0)
    @@ (\h108 :> \h40) @@ (\h109 :> \h00) @@ (\h10A :> \h18) @@ (\h10B :> \hF4)

\* Emulator::new(), then load() of an image of one 16 KiB chunk
InitOrd ==
    /\ \E v1 \in OrdLcdcs, v2 \in OrdLcdcs :
          mem = Ram_load_mem(Ram_new_mem, << OrdProgram(v1, v2) >>)
    /\ banks = <<>>
    /\ active_bank = 0
    /\ cpu = Cpu_new
    /\ timer = Timer_new
    /\ ppu = Ppu_new
    /\ serial = <<>>
    /\ debug_mode = FALSE
    /\ breakpoints = {}
    /\ stdin = <<>>
    /\ stage = "tick"
    /\ err = NoErr
    /\ ret = 0
    /\ checked \in BOOLEAN
    /\ last = [op |-> "init"]
    /\ hist = [ticks |-> 0]

\* one call of Emulator::tick; last keeps the state the call started from, the
\* machine cycles its CPU tick returned and LCDC as its instruction left it
OrdTick ==
    /\ err = NoErr
    /\ hist.ticks < MaxOrdTicks
    /\ \E s1 \in {Emulator_tick(Cur)} :
          /\ Install(s1)
          /\ ret' = IF s1.err = NoErr THEN s1.cyc ELSE ret
    /\ \E s2 \in {Cpu_tick(Cur)} :
          last' = [op |-> "Emulator_tick", m |-> s2.cyc, lcdc |-> ArrGet(s2.mem, LCDC),
                   mem |-> mem, ppu |-> ppu, timer |-> timer]
    /\ hist' = [hist EXCEPT !.ticks = @ + 1]

NextOrd == OrdTick

SpecOrd == InitOrd /\ [][NextOrd]_vars

-----------------------------------------------------------------------------
(* Claims on the order of an Emulator tick.                                *)

\* the last step was an Emulator tick that came to its end
TickDone == last.op = "Emulator_tick" /\ err = NoErr

\* C21: an Emulator tick returns t = 4 * m for the m its CPU tick returned; the
\* timer's counter has advanced by t; the PPU has advanced by t dots when LCDC
\* bit 7 is set after the instruction of this tick and not at all when the
\* instruction left it clear, also when it was set at the start of the tick
C21_TickOrder ==
    TickDone =>
        /\ ret = 4 * last.m
        /\ last.m \in 1 .. 4
        /\ timer.counter = (last.timer.counter + ret) % 65536
        /\ ArrGet(mem, DIV) = timer.counter \div 256
        /\ Bit(last.lcdc, 7) = 1 => ppu.counter = last.ppu.counter + ret
        /\ Bit(last.lcdc, 7) = 0 => ppu = last.ppu
        /\ ArrGet(mem, LCDC) = last.lcdc

\* the instruction of the tick switched the LCD off and the PPU, which had
\* advanced before, stood still in that tick while the timer ran 12 dots
C21_Witness ==
    /\ TickDone
    /\ Bit(ArrGet(last.mem, LCDC), 7) = 1
    /\ Bit(last.lcdc, 7) = 0
    /\ ret = 12
    /\ ppu.counter > 0
    /\ ppu = last.ppu
    /\ timer.counter = last.timer.counter + 12

-----------------------------------------------------------------------------
(* Specification SpecIll: Cpu::tick on a loaded image that holds one of    *)
(* the eleven byte values that are no SM83 instruction at 0x0100, followed *)
(* by the word 0x1234, from drawn flags.                                   *)

IllOps == {\hD3, \hDB, \hDD, \hE3, \hE4, \hEB, \hEC, \hED, \hF4, \hFC, \hFD}
\* the four of them whose low nibble is 4 or 12
IllCalls == {\hE4, \hEC, \hF4, \hFC}
IllFlags == {\h00, \h10, \h80, \hF0}
IllTarget == \h1234

InitIll ==
    /\ \E op \in IllOps, f \in IllFlags :
          /\ cpu = [Cpu_new EXCEPT !.f = Flag_from_u8(f)]
          /\ mem = Ram_load_mem(Ram_new_mem,
                      << (\h100 :> op) @@ (\h101 :> IllTarget % 256)
                         @@ (\h102 :> IllTarget \div 256) >>)
          /\ hist = [ticks |-> 0, op |-> op]
    /\ banks = <<>>
    /\ active_bank = 0
    /\ timer = Timer_new
    /\ ppu = Ppu_new
    /\ serial = <<>>
    /\ debug_mode = FALSE
    /\ breakpoints = {}
    /\ stdin = <<>>
    /\ stage = "tick"
    /\ err = NoErr
    /\ ret = 0
    /\ checked \in BOOLEAN
    /\ last = [op |-> "init"]

NextIll == CpuTick

SpecIll == InitIll /\ [][NextIll]_vars

-----------------------------------------------------------------------------
(* Claims on the bytes that are no instruction.                            *)

\* the first tick, which fetched the byte at 0x0100, is over
IllFetched == hist.ticks >= 1

\* the condition NZ, Z, NC, C that bits 4..3 of the byte select holds in c
IllCond(c) ==
    CASE (hist.op \div 8) % 4 = 0 -> ~c.f.zero
      [] (hist.op \div 8) % 4 = 1 -> c.f.zero
      [] (hist.op \div 8) % 4 = 2 -> ~c.f.carry
      [] (hist.op \div 8) % 4 = 3 -> c.f.carry

\* C22 as stated: the tick that fetches one of the eleven bytes ends in the
\* error state, with no store to the stack, no jump and no register changed
C22_Original ==
    IllFetched =>
        /\ err # NoErr
        /\ cpu.sp = \hFFFE
        /\ ArrGet(mem, \hFFFD) = 0
        /\ ArrGet(mem, \hFFFC) = 0
        /\ cpu.pc # IllTarget

\* what the code does: seven of the bytes are fatal, and 0xED alone prints the
\* five lines of the register dump before it fails; 0xE4, 0xEC, 0xF4 and 0xFC
\* fall into the arm of `call cond, n16` and run as CALL NZ, Z, NC, C
C22_CallCond ==
    /\ IllFetched /\ hist.op \notin IllCalls =>
          /\ err # NoErr
          /\ cpu.sp = \hFFFE
          /\ mem = last.mem
          /\ serial = IF hist.op = \hED
                      THEN Cpu_print_regs([Cur EXCEPT !.err = NoErr, !.serial = <<>>]).serial
                      ELSE <<>>
          /\ hist.op = \hED => Len(serial) = 5 * 10
    /\ hist.ticks = 1 /\ hist.op \in IllCalls =>
          /\ err = NoErr
          /\ IllCond(last.cpu) =>
                /\ ret = 6
                /\ cpu.pc = IllTarget
                /\ cpu.sp = \hFFFC
                /\ ArrGet(mem, \hFFFD) = \h01
                /\ ArrGet(mem, \hFFFC) = \h03
          /\ ~IllCond(last.cpu) =>
                /\ ret = 3
                /\ cpu.pc = \h103
                /\ cpu.sp = \hFFFE
                /\ mem = last.mem

\* 0xE4 was fetched with Z clear and ran as a call: 0x0103 is on the stack and
\* PC is the word that followed the byte
C22_RanAsCall ==
    /\ hist.ticks = 1
    /\ hist.op = \hE4
    /\ err = NoErr
    /\ ret = 6
    /\ cpu.pc = IllTarget
    /\ cpu.sp = \hFFFC
    /\ ArrGet(mem, \hFFFD) = \h01
    /\ ArrGet(mem, \hFFFC) = \h03

\* 0xDD was fetched and the tick ended in the error state
C22_Fatal ==
    /\ hist.ticks = 1
    /\ hist.op = \hDD
    /\ err # NoErr

-----------------------------------------------------------------------------
(* Claims on the ROM, under SpecBus.                                       *)

\* the image that was loaded: one chunk more than there are banks
LoadedImage == BusImage(Len(banks) + 1)

\* the cells of mem below 0x4000 that hold a value now or held one after load
RomProbes == {x \in (DOMAIN mem) \cup (DOMAIN LoadedImage[1]) \cup {0, \h1FFF, \h2000, \h3FFF} :
                 x < \h4000}

\* the last step was a write, on either path, to an address below 0x8000
RomWritten ==
    /\ last.op \in {"CpuBus_write", "Ram_write"}
    /\ last.i < \h8000

\* C23: after every sequence of writes on either path, mem[0x0000..0x4000) and
\* every bank hold what load() put there; a write to an address below 0x8000
\* changes nothing of mem, and fails unless it is a bank selection
C23_RomKept ==
    /\ \A x \in RomProbes : ArrGet(mem, x) = ArrGet(LoadedImage[1], x)
    /\ banks = Ram_load_banks(<<>>, LoadedImage)
    /\ RomWritten =>
          /\ mem = last.mem
          /\ err = NoErr <=> (last.i >= \h2000 /\ last.i < \h4000)
          /\ err # NoErr => active_bank = last.active_bank

\* three writes, the last a bank selection through 0x3FFF that took the window
\* from bank 0 to bank 2, and the cell 0x3FFF of bank 0 still holds its byte
C23_Witness ==
    /\ RomWritten
    /\ hist.ops = 3
    /\ last.i = \h3FFF
    /\ last.active_bank = 0
    /\ active_bank = 2
    /\ Len(banks) = 3
    /\ ArrGet(mem, \h3FFF) = 33
    /\ ArrGet(mem, \h8000) = \h5A

-----------------------------------------------------------------------------
(* Specification SpecLine: Ppu::tick dot by dot from reset over the first  *)
(* three scanlines, with a drawn SCX, a tile map of 32 different tiles,    *)
(* and five objects in OAM, all stored by the guest before the first dot.  *)

MaxLineDots == 1400

LineScxs == {0, 1, 2, 5, 7, 8, 16, 99, 200, 255}
\* the rows of a tile that scanlines 0..7 show with SCY = 0
LineRows == 0 .. 7

\* the tile of map column c, and the two bytes of row r of tile t
LineTileAt(c) == c + 1
LineLow(t, r) == (t * 37 + r * 11 + 5) % 256
LineHigh(t, r) == (t * 91 + r * 7 + 3) % 256

\* the first row of the map at 0x9800 and the rows of its tiles at 0x8000
LineVram ==
    [a \in {\h9800 + c : c \in 0 .. 31}
           \cup {\h8000 + 16 * LineTileAt(c) + 2 * r + h : c \in 0 .. 31, r \in LineRows, h \in {0, 1}}
       |-> IF a >= \h9800 THEN LineTileAt(a - \h9800)
           ELSE IF a % 2 = 0 THEN LineLow((a - \h8000) \div 16, ((a - \h8000) % 16) \div 2)
           ELSE LineHigh((a - \h8000) \div 16, ((a - \h8000) % 16) \div 2)]

\* OAM entries 0..4 as <<y, x, tile, flags>>: entry 0 begins on line 1, entries
\* 1..3 on line 0 with one x, entries 1 and 3 with one tile too, entry 4 on line 2;
\* the flags of entry k are 16 * k, which tells equal objects apart
LineObjects == << <<1, 20, 7, 0>>, <<0, 30, 3, 16>>, <<0, 30, 9, 32>>, <<0, 30, 3, 48>>,
                  <<2, 10, 4, 64>> >>
LineOam == [a \in \hFE00 .. (\hFE00 + 4 * Len(LineObjects) - 1)
               |-> LineObjects[((a - \hFE00) \div 4) + 1][((a - \hFE00) % 4) + 1]]

InitLine ==
    /\ \E scx \in LineScxs :
          /\ mem = Poke(Poke(Poke(Ram_new_mem, (SCX :> scx)), LineVram), LineOam)
          /\ hist = [dots |-> 0, scx |-> scx, line_start |-> 0, line_len |-> Never]
    /\ banks = <<>>
    /\ active_bank = 0
    /\ cpu = Cpu_new
    /\ timer = Timer_new
    /\ ppu = Ppu_new
    /\ serial = <<>>
    /\ debug_mode = FALSE
    /\ breakpoints = {}
    /\ stdin = <<>>
    /\ stage = "tick"
    /\ err = NoErr
    /\ ret = 0
    /\ checked \in BOOLEAN
    /\ last = [op |-> "init"]

\* hist after a dot that led to s1: a change of LY ends a scanline
LineHist(s1) ==
    IF ArrGet(s1.mem, LY) # ArrGet(mem, LY)
    THEN [hist EXCEPT !.dots = @ + 1, !.line_start = hist.dots + 1,
                      !.line_len = hist.dots + 1 - hist.line_start]
    ELSE [hist EXCEPT !.dots = @ + 1]

\* one call of Ppu::tick for a single dot
LineTick ==
    /\ err = NoErr
    /\ hist.dots < MaxLineDots
    /\ \E s1 \in {Ppu_tick(Cur, 1)} :
          /\ Install(s1)
          /\ hist' = LineHist(s1)
    /\ ret' = ret
    /\ last' = [op |-> "Ppu_tick", dots |-> 1, mem |-> mem, ppu |-> ppu]

NextLine == LineTick

SpecLine == InitLine /\ [][NextLine]_vars

-----------------------------------------------------------------------------
(* Claims on the modes of a visible scanline.                              *)

\* the last step was a dot of the PPU
DotRan == last.op = "Ppu_tick"

\* the running scanline was entered from the scanline before it, not by reset
LineEntered == hist.line_len # Never

\* the order of the modes within a scanline: Mode2 for the dots 0..79, then
\* Mode3 while fetcher.x < 160, then Mode0
ModeOrder ==
    /\ ppu.counter < SCANLINE_DOTS
    /\ ppu.mode = "Mode2" <=> ppu.counter < 80
    /\ ppu.mode = "Mode3" => ppu.fetcher.x < SCRN_X
    /\ ppu.mode = "Mode0" => ppu.fetcher.x >= SCRN_X
    /\ DotRan /\ last.ppu.mode = "Mode3" => ppu.mode \in {"Mode3", "Mode0"}
    /\ DotRan /\ last.ppu.mode = "Mode2" => ppu.mode \in {"Mode2", "Mode3"}
    /\ DotRan /\ last.ppu.mode = "Mode0" /\ ppu.mode # "Mode0" =>
          ppu.mode = "Mode2" /\ ppu.counter = 0

\* C24 as stated: with the LCD on every visible scanline runs Mode2 for 80
\* dots, then Mode3 until fetcher.x >= 160, then Mode0, and lasts 456 dots, for
\* every SCX and without failure
C24_Original ==
    /\ err = NoErr
    /\ ArrGet(mem, LY) < 144
    /\ ModeOrder
    /\ hist.line_len \in {Never, SCANLINE_DOTS}

\* what the code does: the scanline that follows reset is spent in Mode0, with
\* no Mode2 and no Mode3; every later one runs as the claim says until, in a
\* build with overflow checks, SCX + fetcher.x passes 255 in GetTile
C24_AfterFirst ==
    /\ ArrGet(mem, LY) < 144
    /\ hist.line_len \in {Never, SCANLINE_DOTS}
    /\ ~LineEntered => ppu.mode = "Mode0" /\ ppu.fetcher.x = 0 /\ err = NoErr
    /\ LineEntered /\ err = NoErr => ModeOrder
    /\ err # NoErr =>
          /\ checked
          /\ ppu.mode = "Mode3"
          /\ hist.scx + ppu.fetcher.x > 255
    /\ ~checked \/ hist.scx + SCRN_X <= 255 => err = NoErr

\* with SCX = 200 and overflow checks, Mode3 of scanline 1 ended in the
\* overflow of SCX + fetcher.x at the fetch of the eighth tile
C24_Overflow ==
    /\ hist.scx = 200
    /\ checked
    /\ err # NoErr
    /\ ArrGet(mem, LY) = 1
    /\ ppu.mode = "Mode3"
    /\ ppu.fetcher.x = 56

\* the last dot ended a scanline and entered Mode2 of the next one
LineEntry == DotRan /\ last.ppu.mode # "Mode2" /\ ppu.mode = "Mode2"

\* the objects are 8 lines high in every state of SpecLine
LineObjHeight == IF BitAnd(ArrGet(mem, LCDC), 4) > 0 THEN 16 ELSE 8

\* the OAM entries that cover line ly, the first ten of them in OAM order
LineCovering(ly) ==
    {k \in 0 .. 39 :
        /\ OamHit(Cur, k, ly, LineObjHeight)
        /\ Cardinality({j \in 0 .. k : OamHit(Cur, j, ly, LineObjHeight)}) <= 10}

\* the objects of the fetcher are those of the OAM entries that cover line ly
ScannedAgainst(ly) ==
    /\ Len(ppu.fetcher.objects) = Cardinality(LineCovering(ly))
    /\ \A k \in LineCovering(ly) :
          \E i \in 1 .. Len(ppu.fetcher.objects) : ppu.fetcher.objects[i] = OamObject(Cur, k)
    /\ \A i \in 1 .. Len(ppu.fetcher.objects) :
          \E k \in LineCovering(ly) : ppu.fetcher.objects[i] = OamObject(Cur, k)

\* C25: on entry to Mode2 the objects selected by the scan are those covering
\* the LY of the scanline being entered
C25_Original == LineEntry => ScannedAgainst(ArrGet(mem, LY))

\* what the code does: oam_scan reads LY from RAM, where Ppu::tick stores the
\* new value only when it returns, so the scan uses the LY of the scanline left
C25_PreviousLy == LineEntry => ScannedAgainst(ArrGet(last.mem, LY))

\* scanline 1 entered: OAM entry 0 (y = 1) covers it and was not selected
C25_Stale ==
    /\ LineEntry
    /\ ArrGet(mem, LY) = 1
    /\ ArrGet(last.mem, LY) = 0
    /\ OamHit(Cur, 0, 1, LineObjHeight)
    /\ Len(ppu.fetcher.objects) = 10
    /\ \A i \in 1 .. Len(ppu.fetcher.objects) : ppu.fetcher.objects[i] # OamObject(Cur, 0)

\* the objects at places i and j of the list come from OAM entries ki and kj
FromEntries(i, j, ki, kj) ==
    /\ ppu.fetcher.objects[i] = OamObject(Cur, ki)
    /\ ppu.fetcher.objects[j] = OamObject(Cur, kj)

\* C26: after the scan, of two selected objects with the same x the one with
\* the larger OAM index (its position in OAM) comes earlier in the list, and
\* an object with a larger x comes before one with a smaller x
C26_Original ==
    LineEntry =>
       \A i, j \in 1 .. Len(ppu.fetcher.objects) :
          i < j =>
             /\ ppu.fetcher.objects[i].x >= ppu.fetcher.objects[j].x
             /\ ppu.fetcher.objects[i].x = ppu.fetcher.objects[j].x =>
                   \E ki, kj \in 0 .. 39 : ki > kj /\ FromEntries(i, j, ki, kj)

\* what the code does: Object::cmp compares x and then the field `index`, the
\* tile number of the object (byte 2 of its OAM entry); objects equal in both
\* keep their OAM order, the sort being stable
C26_ByTile ==
    LineEntry =>
       \A i, j \in 1 .. Len(ppu.fetcher.objects) :
          i < j =>
             /\ ppu.fetcher.objects[i].x >= ppu.fetcher.objects[j].x
             /\ ppu.fetcher.objects[i].x = ppu.fetcher.objects[j].x =>
                   /\ ppu.fetcher.objects[i].index >= ppu.fetcher.objects[j].index
                   /\ ppu.fetcher.objects[i].index = ppu.fetcher.objects[j].index =>
                         \E ki, kj \in 0 .. 39 : ki < kj /\ FromEntries(i, j, ki, kj)

\* the scan of OAM entries 1, 2, 3 (x = 30, tiles 3, 9, 3): entry 2 comes
\* first, then entry 1, then entry 3
C26_TileFirst ==
    /\ LineEntry
    /\ Len(ppu.fetcher.objects) = 10
    /\ ppu.fetcher.objects[1] = OamObject(Cur, 2)
    /\ ppu.fetcher.objects[2] = OamObject(Cur, 1)
    /\ ppu.fetcher.objects[3] = OamObject(Cur, 3)
    /\ OamObject(Cur, 1) # OamObject(Cur, 3)

\* the last dot ended Mode3 of a visible scanline
Mode3Ended == DotRan /\ last.ppu.mode = "Mode3" /\ ppu.mode = "Mode0"

\* C27: when Mode3 ends on a visible scanline draw_x is 160, every entry of
\* the row LY of the framebuffer has been written, for every SCX
C27_Original == Mode3Ended => ppu.fetcher.draw_x = SCRN_X

\* what the code does: Mode3 ends as soon as fetcher.x >= 160, in the very
\* tick that pushed the last tile, and Mode0 never calls the fetcher.  With
\* SCX mod 8 = 0 only one pixel of the last tile is drawn: the entries 153..159
\* of the row are never written.  With overflow checks the scanline fails once
\* SCX + fetcher.x > 255.
C27_ShortRow ==
    /\ Mode3Ended =>
          /\ ppu.fetcher.x = (IF hist.scx % 8 = 0 THEN SCRN_X ELSE SCRN_X + 8 - (hist.scx % 8))
          /\ ppu.fetcher.draw_x = (IF hist.scx % 8 = 0 THEN SCRN_X - 7 ELSE SCRN_X)
    /\ DotRan /\ last.ppu.mode = "Mode0" => ppu.fetcher.draw_x = last.ppu.fetcher.draw_x
    /\ err # NoErr => checked /\ hist.scx + ppu.fetcher.x > 255

\* SCX = 0: Mode3 of scanline 1 ended with 153 pixels drawn
C27_Short ==
    /\ Mode3Ended
    /\ hist.scx = 0
    /\ ArrGet(mem, LY) = 1
    /\ ppu.fetcher.x = SCRN_X
    /\ ppu.fetcher.draw_x = 153
    /\ ppu.fetcher.bg_fifo # <<>>

\* the last dot was a dot of Mode3
Mode3Dot == DotRan /\ last.ppu.mode = "Mode3"

\* the last dot drew the fallback pixel: a pixel was drawn although bg_fifo
\* was empty before the dot and the fetcher pushed nothing in it
FallbackDrawn ==
    /\ Mode3Dot
    /\ ppu.fetcher.draw_x = last.ppu.fetcher.draw_x + 1
    /\ ppu.fetcher.x = last.ppu.fetcher.x
    /\ last.ppu.fetcher.bg_fifo = <<>>

\* C28: throughout Mode3, for every SCX, draw_x <= fetcher.x, and the
\* fallback value 0 of an empty FIFO is never drawn
C28_Original ==
    Mode3Dot => ppu.fetcher.draw_x <= ppu.fetcher.x /\ ~FallbackDrawn

\* what the code does: the first tile pushes 8 - SCX mod 8 pixels and the next
\* push comes seven dots later, one pixel being drawn in each of them; with
\* SCX mod 8 >= 2 the FIFO runs empty and SCX mod 8 - 1 fallback pixels are
\* drawn at the positions 8 - SCX mod 8 .. 6; from there on draw_x passes
\* fetcher.x, by up to SCX mod 8 - 1, before every push
C28_Gap ==
    /\ FallbackDrawn =>
          /\ hist.scx % 8 >= 2
          /\ last.ppu.fetcher.draw_x >= 8 - (hist.scx % 8)
          /\ last.ppu.fetcher.draw_x <= 6
          /\ ArrGet(ppu.fetcher.framebuffer, ArrGet(mem, LY) * SCRN_X + last.ppu.fetcher.draw_x) = 0
    /\ Mode3Dot /\ ppu.fetcher.draw_x > ppu.fetcher.x =>
          /\ hist.scx % 8 >= 2
          /\ ppu.fetcher.draw_x - ppu.fetcher.x <= (hist.scx % 8) - 1
    /\ Mode3Dot /\ hist.scx % 8 >= 2 /\ ppu.fetcher.draw_x = 7 /\ ppu.fetcher.x < 8 =>
          FallbackDrawn

\* SCX = 7: the first tile pushed one pixel; the dot after the one that drew
\* it finds the FIFO empty and draws the fallback pixel, draw_x = 2 > x = 1
C28_Ahead ==
    /\ FallbackDrawn
    /\ hist.scx = 7
    /\ ppu.fetcher.x = 1
    /\ ppu.fetcher.draw_x = 2
    /\ ppu.fetcher.bg_fifo = <<>>

\* the colour of bit b of a tile row <<low, high>>
Colour(tile, b) == ((tile[1] \div Pow2(b)) % 2) + 2 * ((tile[2] \div Pow2(b)) % 2)

\* the entry of position p of the row LY of a framebuffer
RowAt(fb, p) == ArrGet(fb, ArrGet(mem, LY) * SCRN_X + p)

\* the row shown on scanline LY of the k-th tile of the scanline, counted
\* from the map column SCX / 8
RowTile(k) ==
    Ppu_next_tile(Cur, ArrGet(mem, LY), ArrGet(mem, LCDC), ArrGet(mem, SCY),
                  ((ArrGet(mem, SCX) \div 8) + k) % 32)

\* the framebuffer Ppu::_draw_scanline makes of the present one
DrawnAtOnce == Ppu_draw_scanline([Cur EXCEPT !.err = NoErr]).ppu.fetcher.framebuffer

\* a scanline is in its Mode3 or just left it: draw_x counts the pixels
\* written to row LY, and no later dot of the scanline writes one
RowDrawing == ppu.mode = "Mode3" \/ Mode3Ended

\* C29: the pixels of a fetched tile are written left to right from bit 7 to
\* bit 0, with the colour ((low >> b) & 1) | (((high >> b) & 1) << 1).  With
\* SCX mod 8 = 0 the pixel written at position 8k + j is bit 7 - j of the k-th
\* tile of the row, which is what _draw_scanline stores there; with another
\* SCX the tiles after the first begin at the positions 8k - 1.
C29_TileBits ==
    /\ RowDrawing /\ ArrGet(mem, SCX) % 8 = 0 =>
          Then(DrawnAtOnce,
               LAMBDA drawn :
                  \A p \in 0 .. (ppu.fetcher.draw_x - 1) :
                     /\ RowAt(ppu.fetcher.framebuffer, p) = Colour(RowTile(p \div 8), 7 - (p % 8))
                     /\ RowAt(ppu.fetcher.framebuffer, p) = RowAt(drawn, p))
    /\ RowDrawing /\ ArrGet(mem, SCX) % 8 # 0 =>
          \A p \in 7 .. (ppu.fetcher.draw_x - 1) :
             RowAt(ppu.fetcher.framebuffer, p)
                = Colour(RowTile((p + 1) \div 8), 7 - ((p + 1) % 8))

\* SCX = 8, Mode3 of scanline 2 over: 153 pixels written, the four colours
\* among them, the last one bit 7 of the twentieth tile
C29_Witness ==
    /\ Mode3Ended
    /\ ArrGet(mem, SCX) = 8
    /\ ArrGet(mem, LY) = 2
    /\ ppu.fetcher.draw_x = 153
    /\ {RowAt(ppu.fetcher.framebuffer, p) : p \in 0 .. 152} = {0, 1, 2, 3}
    /\ RowAt(ppu.fetcher.framebuffer, 152) = Colour(RowTile(19), 7)
    /\ RowAt(ppu.fetcher.framebuffer, 152) = RowAt(DrawnAtOnce, 152)

\* the pixels of the first tile written so far on the scanline
FirstTileWritten ==
    {p \in 0 .. (ppu.fetcher.draw_x - 1) : p < 8 - (ArrGet(mem, SCX) % 8)}

\* C30: the first tile of a scanline loses its leftmost SCX mod 8 pixels: the
\* first pixel written is pixel SCX mod 8 of the tile counted from the left
\* (bit 7 - SCX mod 8), and the pixels up to the rightmost (bit 0) follow
C30_Original ==
    RowDrawing =>
       \A p \in FirstTileWritten :
          RowAt(ppu.fetcher.framebuffer, p)
             = Colour(RowTile(0), 7 - (ArrGet(mem, SCX) % 8) - p)

\* what the code does: Push appends the bits SCX mod 8 .. 7 and the pixels
\* are popped from the end, so the row begins with bit 7, the leftmost pixel
\* of the tile, and the rightmost SCX mod 8 pixels of the tile are the ones lost
C30_Leftmost ==
    /\ RowDrawing =>
          \A p \in FirstTileWritten :
             RowAt(ppu.fetcher.framebuffer, p) = Colour(RowTile(0), 7 - p)
    /\ DotRan /\ last.ppu.mode = "Mode3" /\ last.ppu.fetcher.x = 0 /\ ppu.fetcher.x > 0 =>
          /\ ppu.fetcher.x = 8 - (ArrGet(mem, SCX) % 8)
          /\ ppu.fetcher.draw_x = 1

\* SCX = 5 on scanline 1, three pixels written: the row begins with the bits
\* 7, 6, 5 of the tile, colours 0, 2, 3, where bits 2 and 1, the pixels 5 and
\* 6 from the left, have the colours 3 and 0
C30_Discarded ==
    /\ ppu.mode = "Mode3"
    /\ ArrGet(mem, SCX) = 5
    /\ ArrGet(mem, LY) = 1
    /\ ppu.fetcher.draw_x = 3
    /\ RowAt(ppu.fetcher.framebuffer, 0) = Colour(RowTile(0), 7)
    /\ RowAt(ppu.fetcher.framebuffer, 0) # Colour(RowTile(0), 2)
    /\ RowAt(ppu.fetcher.framebuffer, 1) = Colour(RowTile(0), 6)
    /\ RowAt(ppu.fetcher.framebuffer, 1) # Colour(RowTile(0), 1)
    /\ RowAt(ppu.fetcher.framebuffer, 2) = Colour(RowTile(0), 5)

\* the last dot ran the GetTile step of the fetcher
GetTileRan ==
    /\ Mode3Dot
    /\ last.ppu.fetcher.state = "GetTile"
    /\ last.ppu.fetcher.delay = 0

\* the tile-map cell of the full sums: column ((SCX + x) / 8) mod 32 and row
\* ((LY + SCY) / 8) mod 32 of the map selected by LCDC bit 3
MapCell(x) ==
    (IF BitAnd(ArrGet(mem, LCDC), 8) = 0 THEN \h9800 ELSE \h9C00)
       + (((ArrGet(mem, LY) + ArrGet(mem, SCY)) \div 8) % 32) * 32
       + (((ArrGet(mem, SCX) + x) \div 8) % 32)

\* C31: for every SCX and every fetcher.x of Mode3, GetTile takes the tile
\* from the map cell of the full sums, inside the selected map, and no
\* arithmetic overflow failure happens
C31_Original ==
    /\ err = NoErr
    /\ GetTileRan =>
          /\ ppu.fetcher.state = "GetTileDataLow"
          /\ ppu.fetcher.index = ArrGet(mem, MapCell(last.ppu.fetcher.x))

\* what the code does: `scx + self.x` is an addition of two u8.  Where it
\* wraps, the cell is the one of the full sum, 256 / 8 being the width of the
\* map; with overflow checks it fails as soon as SCX + fetcher.x > 255.
C31_Wrapped ==
    /\ err # NoErr <=>
          /\ checked
          /\ GetTileRan
          /\ ArrGet(mem, SCX) + last.ppu.fetcher.x > 255
    /\ GetTileRan /\ err = NoErr =>
          /\ ppu.fetcher.state = "GetTileDataLow"
          /\ ppu.fetcher.index = ArrGet(mem, MapCell(last.ppu.fetcher.x))
          /\ MapCell(last.ppu.fetcher.x) \in \h9800 .. \h9BFF

\* SCX = 99 with overflow checks: the GetTile step at fetcher.x = 157 of
\* scanline 1 fails, the tile index left as it was
C31_Panic ==
    /\ GetTileRan
    /\ checked
    /\ err = "attempt to add with overflow"
    /\ ArrGet(mem, SCX) = 99
    /\ ArrGet(mem, LY) = 1
    /\ ppu.fetcher.x = 157
    /\ ppu.fetcher.state = "GetTile"
    /\ ppu.fetcher.index = last.ppu.fetcher.index

-----------------------------------------------------------------------------
(* Specification SpecBr: Cpu::tick on a loaded image that holds a branch   *)
(* instruction and its operand at 0x0100, from drawn flags, with a return  *)
(* address on a stack in work RAM.                                         *)

BrJrs == {\h20, \h28, \h30, \h38}
BrJps == {\hC2, \hCA, \hD2, \hDA}
BrCalls == {\hC4, \hCC, \hD4, \hDC}
BrRets == {\hC0, \hC8, \hD0, \hD8}
\* jr n8, jp n16, call n16, ret
BrAlways == {\h18, \hC3, \hCD, \hC9}
BrFlags == {\h00, \h10, \h80, \hF0}
\* the operand: its low byte is the offset of a jr, +52 or -2
BrOperands == {\h1234, \h82FE}
BrSp == \hDFF0
BrReturn == \hC123

InitBr ==
    /\ \E op \in BrJrs \cup BrJps \cup BrCalls \cup BrRets \cup BrAlways,
          f \in BrFlags, n16 \in BrOperands :
          /\ cpu = [Cpu_new EXCEPT !.f = Flag_from_u8(f), !.sp = BrSp]
          /\ mem = Poke(Ram_load_mem(Ram_new_mem,
                           << (\h100 :> op) @@ (\h101 :> n16 % 256)
                              @@ (\h102 :> n16 \div 256) >>),
                        (BrSp :> BrReturn % 256) @@ ((BrSp + 1) :> BrReturn \div 256))
          /\ hist = [ticks |-> 0, op |-> op, n16 |-> n16]
    /\ banks = <<>>
    /\ active_bank = 0
    /\ timer = Timer_new
    /\ ppu = Ppu_new
    /\ serial = <<>>
    /\ debug_mode = FALSE
    /\ breakpoints = {}
    /\ stdin = <<>>
    /\ stage = "tick"
    /\ err = NoErr
    /\ ret = 0
    /\ checked \in BOOLEAN
    /\ last = [op |-> "init"]

NextBr == CpuTick

SpecBr == InitBr /\ [][NextBr]_vars

-----------------------------------------------------------------------------
(* Claims on the conditional branches.                                     *)

\* the first tick, which ran the branch at 0x0100, is over
BrRan == hist.ticks = 1 /\ last.op = "Cpu_tick"

\* the branch is unconditional or its condition held when it was fetched
BrTaken == hist.op \in BrAlways \/ IllCond(last.cpu)

\* PC after a jr taken at 0x0100: 0x0102 plus the signed offset
BrJrTarget ==
    (\h102 + (IF hist.n16 % 256 >= 128 THEN (hist.n16 % 256) - 256 ELSE hist.n16 % 256)) % 65536

\* nothing but PC changed: registers, flags, SP and memory are as before
BrOnlyPc ==
    /\ cpu = [last.cpu EXCEPT !.pc = cpu.pc]
    /\ mem = last.mem

\* C32: a conditional branch whose condition is false leaves PC past its
\* operand (0x0102 for jr cc, 0x0103 for jp cc and call cc, 0x0101 for ret
\* cc), SP and memory unchanged, and returns 2, 3, 3 and 2; when the condition
\* is true it does what jr, jp, call and ret do and returns 3, 4, 6 and 5
C32_Branches ==
    BrRan =>
       /\ err = NoErr
       /\ hist.op \in BrJrs \cup {\h18} =>
             /\ BrOnlyPc
             /\ BrTaken => cpu.pc = BrJrTarget /\ ret = 3
             /\ ~BrTaken => cpu.pc = \h102 /\ ret = 2
       /\ hist.op \in BrJps \cup {\hC3} =>
             /\ BrOnlyPc
             /\ BrTaken => cpu.pc = hist.n16 /\ ret = 4
             /\ ~BrTaken => cpu.pc = \h103 /\ ret = 3
       /\ hist.op \in BrCalls \cup {\hCD} =>
             /\ BrTaken =>
                   /\ cpu = [last.cpu EXCEPT !.pc = hist.n16, !.sp = BrSp - 2]
                   /\ mem = Poke(last.mem, ((BrSp - 1) :> \h01) @@ ((BrSp - 2) :> \h03))
                   /\ ret = 6
             /\ ~BrTaken => BrOnlyPc /\ cpu.pc = \h103 /\ ret = 3
       /\ hist.op \in BrRets \cup {\hC9} =>
             /\ mem = last.mem
             /\ BrTaken =>
                   /\ cpu = [last.cpu EXCEPT !.pc = BrReturn, !.sp = BrSp + 2]
                   /\ ret = (IF hist.op = \hC9 THEN 4 ELSE 5)
             /\ ~BrTaken => BrOnlyPc /\ cpu.pc = \h101 /\ ret = 2

\* call nc with C set: not taken, PC = 0x0103, three cycles, stack untouched
C32_Witness ==
    /\ BrRan
    /\ hist.op = \hD4
    /\ last.cpu.f.carry
    /\ cpu.pc = \h103
    /\ cpu.sp = BrSp
    /\ ret = 3
    /\ mem = last.mem

\* jr z with Z set and offset -2: taken back to 0x0100, three cycles
C32_WitnessTaken ==
    /\ BrRan
    /\ hist.op = \h28
    /\ last.cpu.f.zero
    /\ hist.n16 = \h82FE
    /\ cpu.pc = \h100
    /\ ret = 3

-----------------------------------------------------------------------------
(* Specification SpecRet: Cpu::tick on a loaded image with reti or ret at  *)
(* 0x0100, a return address on a stack in work RAM, drawn IME, IF and IE.  *)

RETI_OP == \hD9
RET_OP == \hC9
RetIfs == {\h00, \h01, \h05, \hE4}
RetIes == {\h00, \h04, \h1F}

InitRet ==
    /\ \E op \in {RETI_OP, RET_OP}, ime \in IntImes, if_ \in RetIfs, ie \in RetIes :
          /\ cpu = [Cpu_new EXCEPT !.ime = ime, !.sp = BrSp]
          /\ mem = Poke(Ram_load_mem(Ram_new_mem, << (\h100 :> op) >>),
                        (BrSp :> BrReturn % 256) @@ ((BrSp + 1) :> BrReturn \div 256)
                           @@ (IF_REG :> if_) @@ (IE :> ie))
          /\ hist = [ticks |-> 0, op |-> op, ime |-> ime, if_ |-> if_, ie |-> ie]
    /\ banks = <<>>
    /\ active_bank = 0
    /\ timer = Timer_new
    /\ ppu = Ppu_new
    /\ serial = <<>>
    /\ debug_mode = FALSE
    /\ breakpoints = {}
    /\ stdin = <<>>
    /\ stage = "tick"
    /\ err = NoErr
    /\ ret = 0
    /\ checked \in BOOLEAN
    /\ last = [op |-> "init"]

NextRet == CpuTick

SpecRet == InitRet /\ [][NextRet]_vars

-----------------------------------------------------------------------------
(* Claims on reti and ret.                                                 *)

\* an interrupt is requested and enabled in the drawn IF and IE
RetPending == BitAnd(BitAnd(hist.if_, hist.ie), \h1F) > 0

\* the first tick is over and it ran the instruction at 0x0100: it did not
\* dispatch an interrupt instead
ReturnRan ==
    /\ hist.ticks = 1
    /\ last.op = "Cpu_tick"
    /\ ~(hist.ime = "Enabled" /\ RetPending)

\* the second tick is over, and the first one ran the instruction at 0x0100
AfterReturn ==
    /\ hist.ticks = 2
    /\ last.op = "Cpu_tick"
    /\ ~(hist.ime = "Enabled" /\ RetPending)

\* the lowest bit set in IF & IE
RetBit == TrailingZeros(BitAnd(hist.if_, hist.ie))

\* C33: reti pops PC, has IME Enabled when its tick ends and returns 4, and a
\* pending interrupt is dispatched by the next tick; ret pops PC, returns 4
\* and does not touch IME (an IME left Pending by ei becomes Enabled in the
\* tick, as in the tick of any instruction)
C33_Return ==
    /\ ReturnRan =>
          /\ err = NoErr
          /\ ret = 4
          /\ mem = last.mem
          /\ hist.op = RETI_OP =>
                cpu = [last.cpu EXCEPT !.pc = BrReturn, !.sp = BrSp + 2, !.ime = "Enabled"]
          /\ hist.op = RET_OP =>
                cpu = [last.cpu EXCEPT !.pc = BrReturn, !.sp = BrSp + 2,
                                       !.ime = IF hist.ime = "Pending" THEN "Enabled" ELSE hist.ime]
    /\ AfterReturn /\ hist.op = RETI_OP /\ RetPending =>
          /\ err = NoErr
          /\ ret = 5
          /\ cpu.pc = \h40 + 8 * RetBit
          /\ cpu.ime = "Disabled"
          /\ cpu.sp = BrSp
          /\ ArrGet(mem, IF_REG) = hist.if_ - Pow2(RetBit)
    /\ AfterReturn /\ hist.op = RET_OP /\ hist.ime = "Disabled" =>
          /\ err = NoErr
          /\ ret = 1
          /\ cpu.pc = BrReturn + 1
          /\ cpu.ime = "Disabled"

\* reti ran with IME Disabled while the timer interrupt was pending (IF =
\* 0x05, IE = 0x04): the next tick dispatched it to 0x0050
C33_Witness ==
    /\ AfterReturn
    /\ hist.op = RETI_OP
    /\ hist.ime = "Disabled"
    /\ hist.if_ = \h05
    /\ hist.ie = \h04
    /\ last.cpu.pc = BrReturn
    /\ last.cpu.ime = "Enabled"
    /\ cpu.pc = \h50
    /\ ArrGet(mem, IF_REG) = \h01
    /\ ret = 5

-----------------------------------------------------------------------------
(* Specification SpecInc: one Cpu::tick on inc r8, dec r8 (with the [hl]   *)
(* forms) or add hl, r16, on drawn operands, HL and flags.                 *)

IncAddHl == {\h09, \h19, \h29, \h39}
IncOps == AluInc \cup AluDec \cup IncAddHl
\* HL: in ROM, in VRAM, in work RAM, and the IE register
IncHls == {\h0000, \h0FFF, \h8000, \hC0FF, \hFFFF}
\* the other operand of add hl, r16
IncWords == {\h0000, \h0001, \h0F01, \h8000, \hF001, \hFFFF}

InitInc ==
    /\ \E op \in IncOps, x \in AluBytes, hl \in IncHls, rr \in IncWords, f \in AluFlags :
          /\ cpu = [Cpu_new EXCEPT !.pc = AluPc, !.a = x, !.f = Flag_from_u8(f),
                       !.b = IF op \in IncAddHl THEN rr \div 256 ELSE x,
                       !.c = IF op \in IncAddHl THEN rr % 256 ELSE x,
                       !.d = IF op \in IncAddHl THEN rr \div 256 ELSE x,
                       !.e = IF op \in IncAddHl THEN rr % 256 ELSE x,
                       !.sp = rr,
                       !.h = hl \div 256, !.l = hl % 256]
          /\ mem = Poke(Ram_new_mem,
                        (AluPc :> op) @@ (IF hl >= \h8000 THEN (hl :> x) ELSE EmptyArr))
          /\ last = [op |-> "init", opcode |-> op, x |-> x]
          /\ hist = [ticks |-> 0, hl |-> hl]
    /\ banks = <<>>
    /\ active_bank = 0
    /\ timer = Timer_new
    /\ ppu = Ppu_new
    /\ serial = <<>>
    /\ debug_mode = FALSE
    /\ breakpoints = {}
    /\ stdin = <<>>
    /\ stage = "tick"
    /\ err = NoErr
    /\ ret = 0
    /\ checked \in BOOLEAN

NextInc == AluTick

SpecInc == InitInc /\ [][NextInc]_vars

-----------------------------------------------------------------------------
(* Claims on inc r8, dec r8 and add hl, r16.                               *)

\* the instruction ran
IncRan == last.op = "Cpu_tick"

\* the operand of the inc or dec that ran: register 0..7 = b, c, d, e, h, l,
\* [hl], a, as it was before the tick
IncOld ==
    CASE (last.opcode \div 8) % 8 = 0 -> last.cpu.b
      [] (last.opcode \div 8) % 8 = 1 -> last.cpu.c
      [] (last.opcode \div 8) % 8 = 2 -> last.cpu.d
      [] (last.opcode \div 8) % 8 = 3 -> last.cpu.e
      [] (last.opcode \div 8) % 8 = 4 -> last.cpu.h
      [] (last.opcode \div 8) % 8 = 5 -> last.cpu.l
      [] (last.opcode \div 8) % 8 = 6 -> ArrGet(last.mem, hist.hl)
      [] (last.opcode \div 8) % 8 = 7 -> last.cpu.a

\* the same operand after the tick
IncNew ==
    CASE (last.opcode \div 8) % 8 = 0 -> cpu.b
      [] (last.opcode \div 8) % 8 = 1 -> cpu.c
      [] (last.opcode \div 8) % 8 = 2 -> cpu.d
      [] (last.opcode \div 8) % 8 = 3 -> cpu.e
      [] (last.opcode \div 8) % 8 = 4 -> cpu.h
      [] (last.opcode \div 8) % 8 = 5 -> cpu.l
      [] (last.opcode \div 8) % 8 = 6 -> ArrGet(mem, hist.hl)
      [] (last.opcode \div 8) % 8 = 7 -> cpu.a

\* the other operand of the add hl, r16 that ran: bc, de, hl, sp
IncWord ==
    CASE (last.opcode \div 16) % 4 = 0 -> last.cpu.b * 256 + last.cpu.c
      [] (last.opcode \div 16) % 4 = 1 -> last.cpu.d * 256 + last.cpu.e
      [] (last.opcode \div 16) % 4 = 2 -> hist.hl
      [] (last.opcode \div 16) % 4 = 3 -> last.cpu.sp

\* C34: inc r8 and dec r8, the [hl] forms included, leave the carry flag as
\* it was and set Z by the result, N = 0 or 1, H = ((old & 0xF) == 0xF) for
\* inc and ((old & 0xF) == 0) for dec; add hl, r16 leaves the zero flag as it
\* was and sets N = 0, H = ((HL & 0xFFF) + (r & 0xFFF) > 0xFFF), C = overflow
\* of the 16-bit sum.  The only failure is the store of a [hl] form to an
\* address below 0x8000 that is no bank selection.
C34_Flags ==
    IncRan =>
       /\ err # NoErr <=>
             /\ last.opcode \in {\h34, \h35}
             /\ hist.hl < \h2000 \/ (hist.hl >= \h4000 /\ hist.hl < \h8000)
       /\ last.opcode \in AluInc =>
             /\ cpu.f = [zero |-> (IncOld + 1) % 256 = 0, sub |-> FALSE,
                         half_carry |-> IncOld % 16 = 15, carry |-> last.cpu.f.carry]
             /\ err = NoErr => IncNew = (IncOld + 1) % 256
       /\ last.opcode \in AluDec =>
             /\ cpu.f = [zero |-> (IncOld + 255) % 256 = 0, sub |-> TRUE,
                         half_carry |-> IncOld % 16 = 0, carry |-> last.cpu.f.carry]
             /\ err = NoErr => IncNew = (IncOld + 255) % 256
       /\ last.opcode \in IncAddHl =>
             /\ cpu.f = [zero |-> last.cpu.f.zero, sub |-> FALSE,
                         half_carry |-> (hist.hl % 4096) + (IncWord % 4096) > 4095,
                         carry |-> hist.hl + IncWord > 65535]
             /\ cpu.h * 256 + cpu.l = (hist.hl + IncWord) % 65536
             /\ ret = 2
             /\ mem = last.mem

\* dec [hl] of 0x10 with the carry set: the cell holds 0x0F, H is set, the
\* carry is still set
C34_Witness ==
    /\ IncRan
    /\ last.opcode = \h35
    /\ hist.hl = \hC0FF
    /\ ArrGet(last.mem, \hC0FF) = \h10
    /\ ArrGet(mem, \hC0FF) = \h0F
    /\ last.cpu.f.carry
    /\ cpu.f.carry
    /\ cpu.f.half_carry
    /\ ~cpu.f.zero
    /\ ret = 3

\* add hl, bc of 0x0FFF and 0xF001 with Z set: HL = 0, H and C set, Z still set
C34_WitnessAdd ==
    /\ IncRan
    /\ last.opcode = \h09
    /\ hist.hl = \h0FFF
    /\ IncWord = \hF001
    /\ cpu.h = 0 /\ cpu.l = 0
    /\ last.cpu.f.zero
    /\ cpu.f = [zero |-> TRUE, sub |-> FALSE, half_carry |-> TRUE, carry |-> TRUE]

-----------------------------------------------------------------------------
(* Claims on the fatal writes (under SpecBus).                             *)

\* the last step was a write, on either path, to the RAM-enable range, to the
\* RAM-bank / mode-select range or to the OAM DMA register
UnimplementedWrite ==
    /\ last.op \in {"CpuBus_write", "Ram_write"}
    /\ \/ last.i < \h2000
       \/ last.i >= \h4000 /\ last.i < \h8000
       \/ last.i = DMA

\* C35: a write to [0x0000, 0x2000), to [0x4000, 0x8000) or to the OAM DMA
\* register 0xFF46 is fatal on both paths to the bus and is never stored
C35_Original ==
    UnimplementedWrite => err # NoErr /\ mem = last.mem

\* what the code does: Ram::write fails on all of them; CpuBus::write, the
\* path of the CPU instructions, fails on the two ROM ranges and has no test
\* of the DMA register: it stores the byte at 0xFF46 as an ordinary byte
C35_CpuPathStores ==
    UnimplementedWrite =>
       /\ active_bank = last.active_bank
       /\ last.op = "Ram_write" \/ last.i # DMA => err # NoErr /\ mem = last.mem
       /\ last.op = "CpuBus_write" /\ last.i = DMA =>
             /\ err = NoErr
             /\ mem = ArrSet(last.mem, DMA, last.val)

\* CpuBus::write(0xFF46, 0xC0) returned and the cell 0xFF46 holds 0xC0
C35_DmaStored ==
    /\ last.op = "CpuBus_write"
    /\ last.i = DMA
    /\ last.val = \hC0
    /\ err = NoErr
    /\ ArrGet(last.mem, DMA) # \hC0
    /\ ArrGet(mem, DMA) = \hC0

-----------------------------------------------------------------------------
(* Claims on reads from the bank window (under SpecBus).                    *)

\* the last step was a read of the bank window [0x4000, 0x8000)
WindowRead ==
    /\ last.op = "CpuBus_read"
    /\ last.i >= \h4000
    /\ last.i < \h8000

\* C36: a read from the bank window never fails; when the selected index is
\* beyond the loaded banks it is served from the bank of index
\* active_bank mod (number of loaded banks)
C36_Original ==
    WindowRead =>
       /\ err = NoErr
       /\ Len(banks) > 0 =>
             ret = ArrGet(banks[(active_bank % Len(banks)) + 1], last.i - \h4000)

\* what the code does: `self.banks[self.active_bank][..]` indexes the vector
\* of banks with the selected index as it is; the read fails when no bank of
\* that index is loaded, and a cartridge of one chunk has no bank at all
C36_Unchecked ==
    WindowRead =>
       /\ err # NoErr <=> active_bank >= Len(banks)
       /\ err = NoErr => ret = ArrGet(banks[active_bank + 1], last.i - \h4000)
       /\ mem = last.mem
       /\ active_bank = last.active_bank

\* an image of four chunks (three banks), bank index 30 selected by the write
\* of 0x1F to 0x2FFF, then the read of 0x4000 failed
C36_BeyondBanks ==
    /\ WindowRead
    /\ last.i = \h4000
    /\ Len(banks) = 3
    /\ active_bank = 30
    /\ err = "index out of bounds"

\* an image of one chunk: no bank is loaded and the first read of the window
\* failed
C36_NoBank ==
    /\ WindowRead
    /\ hist.ops = 1
    /\ banks = <<>>
    /\ active_bank = 0
    /\ err = "index out of bounds"

-----------------------------------------------------------------------------
(* Specification SpecHalt: Emulator::tick from reset on an image with halt *)
(* at 0x0100, with LCDC, IE, TAC and SCX stored and IF cleared by the      *)
(* guest beforehand: one tick runs the halt, the following ticks find the  *)
(* CPU halted.  The run is followed until the CPU has left the halted      *)
(* state.  SpecHaltFair adds that the main loop keeps calling tick.        *)

MaxHaltTicks == 17000

HALT_OP == \h76
\* <<LCDC, IE, TAC>>: the LCD on with VBlank enabled; the timer on, at 16 and
\* at 256 cycles per increment, with its interrupt enabled and the LCD off;
\* both
HaltCases == {<<\h91, \h01, \h00>>, <<\h11, \h04, \h05>>, <<\h11, \h04, \h07>>,
              <<\h91, \h05, \h05>>}
HaltScxs == {0, 255}

InitHalt ==
    /\ \E case \in HaltCases, scx \in HaltScxs :
          /\ mem = Poke(Ram_load_mem(Ram_new_mem, << (\h100 :> HALT_OP) >>),
                        (LCDC :> case[1]) @@ (IE :> case[2]) @@ (TAC :> case[3])
                           @@ (SCX :> scx) @@ (IF_REG :> \hE0))
          /\ hist = [ticks |-> 0, lcdc |-> case[1], ie |-> case[2], tac |-> case[3],
                     scx |-> scx]
    /\ banks = <<>>
    /\ active_bank = 0
    /\ cpu = Cpu_new
    /\ timer = Timer_new
    /\ ppu = Ppu_new
    /\ serial = <<>>
    /\ debug_mode = FALSE
    /\ breakpoints = {}
    /\ stdin = <<>>
    /\ stage = "tick"
    /\ err = NoErr
    /\ ret = 0
    /\ checked \in BOOLEAN
    /\ last = [op |-> "init"]

\* one call of Emulator::tick, while the halt has not run or the CPU is halted
HaltTick ==
    /\ err = NoErr
    /\ hist.ticks < MaxHaltTicks
    /\ hist.ticks = 0 \/ cpu.halted
    /\ \E s1 \in {Emulator_tick(Cur)} :
          /\ Install(s1)
          /\ ret' = IF s1.err = NoErr THEN s1.cyc ELSE ret
    /\ last' = [op |-> "Emulator_tick", halted |-> cpu.halted, if_ |-> ArrGet(mem, IF_REG)]
    /\ hist' = [hist EXCEPT !.ticks = @ + 1]

NextHalt == HaltTick

SpecHalt == InitHalt /\ [][NextHalt]_vars

\* HaltTick can be taken
HaltEnabled == err = NoErr /\ hist.ticks < MaxHaltTicks /\ (hist.ticks = 0 \/ cpu.halted)

\* a step of HaltTick as the tick counter shows it: within SpecHalt the steps
\* that count a tick are the steps of HaltTick
HaltCount == HaltEnabled /\ hist' = [hist EXCEPT !.ticks = @ + 1]

\* main() calls Emulator::tick in a loop that ends only with the process:
\* a tick that can be taken is taken
SpecHaltFair == SpecHalt /\ WF_hist(HaltCount)

-----------------------------------------------------------------------------
(* Claims on the halted CPU.                                               *)

\* C37: a CPU halted with the LCD on and IE bit 0 set, or with the timer on
\* and IE bit 2 set, eventually leaves the halted state under repeated ticks
C37_Original == cpu.halted ~> ~cpu.halted

\* what the code does: the CPU leaves the halted state unless a tick fails
\* before the interrupt is raised, as the fetcher does in Mode3 with overflow
\* checks when SCX + fetcher.x > 255
C37_UnlessFailed == cpu.halted ~> (~cpu.halted \/ err # NoErr)

\* while the CPU is halted every tick is four dots, and a failure is the
\* overflow of the fetcher with the LCD on, SCX = 255 and overflow checks
C37_HaltedTicks ==
    /\ last.op = "Emulator_tick" /\ last.halted /\ err = NoErr => ret = 4
    /\ err # NoErr =>
          /\ err = "attempt to add with overflow"
          /\ checked
          /\ hist.scx = 255
          /\ BitAnd(hist.lcdc, 128) > 0
          /\ ppu.mode = "Mode3"
    /\ last.op = "Emulator_tick" /\ last.halted /\ ~cpu.halted =>
          BitAnd(BitAnd(last.if_, hist.ie), \h1F) > 0

\* LCD on, IE = 0x01, SCX = 255, overflow checks: the tick failed in Mode3 of
\* scanline 1 with the CPU halted and no interrupt requested
C37_Stuck ==
    /\ cpu.halted
    /\ err = "attempt to add with overflow"
    /\ hist.lcdc = \h91
    /\ hist.ie = \h01
    /\ hist.scx = 255
    /\ ArrGet(mem, IF_REG) = \hE0
    /\ ArrGet(mem, LY) = 1

\* LCD on, IE = 0x01, SCX = 0: the CPU left the halted state in the tick
\* after the one that entered VBlank
C37_Woken ==
    /\ last.op = "Emulator_tick"
    /\ last.halted
    /\ ~cpu.halted
    /\ hist.lcdc = \h91
    /\ hist.ie = \h01
    /\ hist.scx = 0
    /\ ArrGet(mem, LY) = 144
    /\ ArrGet(mem, IF_REG) = \hE1

-----------------------------------------------------------------------------
(* Interrupt requests across the parts of Emulator::tick: the CPU, the     *)
(* timer and the PPU each read and write IF in turn (emulator/mod.rs       *)
(* 109-139).  The machine starts on scanline 143, a few dots ahead of the  *)
(* VBlank entry, with TIMA about to overflow.                              *)

MaxIrqTicks == 3
\* half scanlines run from reset: the middle of scanline 143
IrqLead == 2 * 143 + 1
\* dots left on scanline 143
IrqDots == {4, 12, 20}
\* Timer.counter, TIMA, IF, IE at the start
IrqCounters == {0, 4, 12}
IrqTimas == {\hFE, \hFF}
IrqIfs == {\hE0, \hE2, \hE5}
IrqIes == {\h00, \h02, \h07}
\* the instruction at the entry point: NOP, or LDH [0x0F],A
IrqProgs == {<<\h00, \h00>>, <<\hE0, \h0F>>}
\* TAC: timer enabled, one TIMA step each 16 t-cycles
IrqTac == \b101

InitIrq ==
    /\ \E d \in IrqDots :
       \E s0 \in {Ppu_tick(LcdLead(LcdReset, IrqLead), HalfLine - d)} :
       \E counter \in IrqCounters, tima \in IrqTimas, if_ \in IrqIfs, ie \in IrqIes,
          prog \in IrqProgs :
          /\ mem = Poke(s0.mem, (\h100 :> prog[1]) @@ (\h101 :> prog[2])
                                   @@ (TAC :> IrqTac) @@ (TIMA :> tima)
                                   @@ (IF_REG :> if_) @@ (IE :> ie))
          /\ ppu = s0.ppu
          /\ err = s0.err
          /\ timer = [counter |-> counter]
    /\ \E ime \in {"Disabled", "Enabled"} : cpu = [Cpu_new EXCEPT !.ime = ime]
    /\ banks = <<>>
    /\ active_bank = 0
    /\ serial = <<>>
    /\ debug_mode = FALSE
    /\ breakpoints = {}
    /\ stdin = <<>>
    /\ stage = "tick"
    /\ ret = 0
    /\ checked = TRUE
    /\ last = [op |-> "init"]
    /\ hist = [ticks |-> 0]

\* one call of Emulator::tick
IrqTick ==
    /\ err = NoErr
    /\ hist.ticks < MaxIrqTicks
    /\ \E s1 \in {Emulator_tick(Cur)} :
          /\ Install(s1)
          /\ ret' = IF s1.err = NoErr THEN s1.cyc ELSE ret
    /\ last' = [op |-> "Emulator_tick", if_ |-> ArrGet(mem, IF_REG), ie |-> ArrGet(mem, IE),
                ime |-> cpu.ime, a |-> cpu.a, tima |-> ArrGet(mem, TIMA),
                mode |-> ppu.mode, opcode |-> ArrGet(mem, cpu.pc),
                operand |-> ArrGet(mem, cpu.pc + 1)]
    /\ hist' = [hist EXCEPT !.ticks = @ + 1]

NextIrq == IrqTick

SpecIrq == InitIrq /\ [][NextIrq]_vars

IrqRan == last.op = "Emulator_tick" /\ err = NoErr

\* the tick dispatched an interrupt, and its bit
IrqDispatched == last.ime = "Enabled" /\ BitAnd(BitAnd(last.if_, last.ie), \b11111) > 0
IrqBit == TrailingZeros(BitAnd(last.if_, last.ie))
\* the tick ran a guest store to IF
IrqGuestWrite == ~IrqDispatched /\ last.opcode = \hE0 /\ last.operand = \h0F
\* IF as the CPU part of the tick leaves it
IrqAfterCpu ==
    IF IrqDispatched THEN BitAnd(last.if_, Not8(Pow2(IrqBit)))
    ELSE IF IrqGuestWrite THEN last.a
    ELSE last.if_
\* TIMA overflowed in the tick (TMA is 0), the PPU entered VBlank in the tick
IrqOverflow == ArrGet(mem, TIMA) < last.tima
IrqVBlank == last.mode = "Mode0" /\ ppu.mode = "Mode1"

\* C38: no interrupt request is lost inside an Emulator tick: IF after the tick
\* is IF before it, less the one bit the CPU dispatched (or replaced by the
\* byte a guest instruction stored to IF), with bit 2 set when TIMA overflowed
\* in the tick and bit 0 set when the PPU entered VBlank in the tick; so a
\* raised bit stays set until it is dispatched or the guest writes IF, both
\* bits are set when overflow and VBlank entry meet in one tick, and a
\* dispatch in that tick clears only the dispatched bit.
C38_NoLostRequest ==
    IrqRan =>
       ArrGet(mem, IF_REG) =
          BitOr(BitOr(IrqAfterCpu, IF IrqOverflow THEN 4 ELSE 0),
                IF IrqVBlank THEN 1 ELSE 0)

\* the STAT request (bit 1) is dispatched in the tick in which TIMA overflows
\* and the PPU enters VBlank: bit 1 is cleared, bits 2 and 0 are set
C38_Witness ==
    /\ IrqRan
    /\ IrqDispatched
    /\ IrqBit = 1
    /\ IrqOverflow
    /\ IrqVBlank
    /\ last.if_ = \hE2
    /\ ArrGet(mem, IF_REG) = \hE5
    /\ cpu.pc = \h48

\* the timer request raised earlier is still set after a later tick that
\* enters VBlank without a dispatch
C38_WitnessKept ==
    /\ IrqRan
    /\ ~IrqDispatched
    /\ ~IrqGuestWrite
    /\ ~IrqOverflow
    /\ IrqVBlank
    /\ Bit(last.if_, 2) = 1
    /\ Bit(last.if_, 0) = 0
    /\ ArrGet(mem, IF_REG) = BitOr(last.if_, 1)

-----------------------------------------------------------------------------
(* Frame completion as the main loop sees it (main.rs 61-73): after every  *)
(* Emulator::tick it asks frame_ready() and presents the framebuffer when  *)
(* it is true.  The machine starts in the middle of scanline 152 and runs  *)
(* through scanline 153 into the next frame.                               *)

MaxFrameTicks == 180
\* half scanlines run from reset: the middle of scanline 152
FrameLead == 2 * 152 + 1
\* dots run on top of the lead, whole ticks of 4 dots
FrameOffsets == {0, 4, 8}
\* the program at the entry point: a NOP sled, or JR -2 looping on itself
FrameProgs == {<<\h00, \h00>>, <<\h18, \hFE>>}
\* lines of standard input for the debugger: "c", "r", "q", "d", "b 264"
\* (0x0108), "x $0100", "x sp", "x", "b $1g", "zz", the empty line, "b $0100"
\* with U+3000 for the space, "c" with U+00A0 behind it, and a byte that is
\* not UTF-8
LineC == << 99, 10 >>
LineR == << 114, 10 >>
LineQ == << 113, 10 >>
LineD == << 100, 10 >>
LineBDec == << 98, 32, 50, 54, 52, 10 >>
LineXHex == << 120, 32, 36, 48, 49, 48, 48, 10 >>
LineXSp == << 120, 32, 115, 112, 10 >>
LineX == << 120, 10 >>
LineBBad == << 98, 32, 36, 49, 103, 10 >>
LineOther == << 122, 122, 10 >>
LineEmpty == << 10 >>
LineBWide == << 98, \hE3, \h80, \h80, 36, 48, 49, 48, 48, 10 >>
LineCNbsp == << 99, \hC2, \hA0, 10 >>
LineNotUtf8 == << \hFF, 10 >>

\* what standard input holds in a run with -d
FrameStdins ==
    { <<>>,
      << LineQ >>,
      << LineR, LineC >>,
      << LineBWide, LineCNbsp >>,
      << LineXHex, LineX, LineBBad, LineOther, LineBDec, LineXSp, LineD, LineEmpty, LineC >>,
      << LineR, LineNotUtf8 >> }

\* Emulator::with_debug_mode(dm): Emulator::new() with debug_mode set to dm
Emulator_with_debug_mode(dm) ==
    [cpu |-> Cpu_new, ppu |-> Ppu_new, timer |-> Timer_new, breakpoints |-> {},
     debug_mode |-> dm]

\* a run without -d, taken up in the middle of scanline 152
InitFrameLate ==
    /\ \E d \in FrameOffsets :
       \E s0 \in {Ppu_tick(LcdLead(LcdReset, FrameLead), d)} :
       \E prog \in FrameProgs :
          /\ mem = Poke(s0.mem, (\h100 :> prog[1]) @@ (\h101 :> prog[2]))
          /\ ppu = s0.ppu
          /\ err = s0.err
    /\ debug_mode = Emulator_with_debug_mode(FALSE).debug_mode
    /\ stdin = <<>>

\* a run with -d from reset: main.rs 41, Emulator::with_debug_mode(true)
InitFrameDebug ==
    /\ \E prog \in FrameProgs :
          mem = Poke(LcdReset.mem, (\h100 :> prog[1]) @@ (\h101 :> prog[2]))
    /\ ppu = Emulator_with_debug_mode(TRUE).ppu
    /\ err = NoErr
    /\ debug_mode = Emulator_with_debug_mode(TRUE).debug_mode
    /\ stdin \in FrameStdins

InitFrame ==
    /\ InitFrameLate \/ InitFrameDebug
    /\ breakpoints = {}
    /\ cpu = Cpu_new
    /\ timer = Timer_new
    /\ banks = <<>>
    /\ active_bank = 0
    /\ serial = <<>>
    /\ stage = "events"
    /\ ret = 0
    /\ checked = TRUE
    /\ last = [op |-> "init"]
    /\ hist = [ticks |-> 0, ready |-> 0, presented |-> 0]

\* the round of the main loop starts: the events of the window are polled, and
\* Quit or the Escape key leaves the loop
MainEvents(quit) ==
    /\ err = NoErr
    /\ stage = "events"
    /\ hist.ticks < MaxFrameTicks
    /\ InstallAt(Cur, IF quit THEN "done" ELSE "tick")
    /\ ret' = ret
    /\ last' = [op |-> "events", quit |-> quit]
    /\ hist' = hist

\* hist after emu.tick() has led to s1: hist.ready counts the ticks of the
\* frame after which frame_ready() is true, and a new frame starts the count
\* again when the PPU leaves Mode1
FrameHist(s1) ==
    [hist EXCEPT !.ticks = @ + 1,
                 !.ready = IF s1.err = NoErr /\ Emulator_frame_ready(s1) THEN @ + 1
                           ELSE IF ppu.mode = "Mode1" /\ s1.ppu.mode # "Mode1" THEN 0
                           ELSE @]

\* emu.tick() when the debugger is not due: the whole tick
FrameTick ==
    /\ err = NoErr
    /\ stage = "tick"
    /\ ~(debug_mode \/ cpu.pc \in breakpoints)
    /\ \E s1 \in {Emulator_tick(Cur)} :
          /\ InstallAt(s1, "sleep")
          /\ ret' = IF s1.err = NoErr THEN s1.cyc ELSE ret
          /\ hist' = FrameHist(s1)
    /\ last' = [op |-> "Emulator_tick", mode |-> ppu.mode, ly |-> ArrGet(mem, LY)]

\* emu.tick() when the debugger is due: Emulator::debug starts, prints its
\* line and waits in read_line
DebugEnter ==
    /\ err = NoErr
    /\ stage = "tick"
    /\ debug_mode \/ cpu.pc \in breakpoints
    /\ InstallAt(Emulator_debug_start(Cur), "debug")
    /\ ret' = ret
    /\ last' = [op |-> "Emulator_debug"]
    /\ hist' = hist

\* read_line returns: the debugger runs the line and waits for the next one,
\* or it leaves its loop and the tick runs to its end
DebugLine ==
    /\ err = NoErr
    /\ stage = "debug"
    /\ \E r \in {Debug_line(Cur)} :
          IF r.more
          THEN /\ InstallAt(r.s, "debug")
               /\ ret' = ret
               /\ hist' = hist
               /\ last' = [op |-> "read_line"]
          ELSE \E s1 \in {Emulator_tick_rest(r.s)} :
                  /\ InstallAt(s1, "sleep")
                  /\ ret' = IF s1.err = NoErr THEN s1.cyc ELSE ret
                  /\ hist' = FrameHist(s1)
                  /\ last' = [op |-> "Emulator_tick", mode |-> ppu.mode,
                              ly |-> ArrGet(mem, LY)]

\* the wait for the rest of the time of the tick: the thread sleeps when the
\* tick took less than t_cyc * 238 ns (`short`), which the clock decides
MainSleep(short) ==
    /\ err = NoErr
    /\ stage = "sleep"
    /\ InstallAt(Cur, "present")
    /\ ret' = ret
    /\ last' = [op |-> "sleep", slept |-> short]
    /\ hist' = hist

\* the frame is presented if frame_ready(); hist.presented counts the calls
\* of disp.update
MainPresent ==
    /\ err = NoErr
    /\ stage = "present"
    /\ InstallAt(Cur, "events")
    /\ ret' = ret
    /\ last' = [op |-> "present", updated |-> Emulator_frame_ready(Cur)]
    /\ hist' = [hist EXCEPT !.presented = IF Emulator_frame_ready(Cur) THEN @ + 1 ELSE @]

NextFrame ==
    \/ \E quit \in BOOLEAN : MainEvents(quit)
    \/ FrameTick
    \/ DebugEnter
    \/ DebugLine
    \/ \E short \in BOOLEAN : MainSleep(short)
    \/ MainPresent

SpecFrame == InitFrame /\ [][NextFrame]_vars

FrameRan == last.op = "Emulator_tick" /\ err = NoErr

\* C39: frame completion is signalled once per frame: within one frame,
\* frame_ready() is true after at most one Emulator tick, so the frame is
\* presented once.
C39_Original == hist.ready <= 1 /\ hist.presented <= 1

\* what the code does: frame_ready() is true after every tick that ends on
\* scanline 153, so with ticks of ret dots the frame is signalled once for
\* each tick of the 456 dots of that scanline, and not at all elsewhere; the
\* round of each of these ticks presents the frame, after its wait
C39_WholeLine ==
    FrameRan =>
       /\ Emulator_frame_ready(Cur) <=> ppu.mode = "Mode1" /\ ArrGet(mem, LY) = 153
       /\ Emulator_frame_ready(Cur) => hist.ready = (ppu.counter \div ret) + 1
       /\ ~Emulator_frame_ready(Cur) => hist.ready = 0
       /\ hist.ready <= SCANLINE_DOTS \div 4
       /\ hist.presented <= SCANLINE_DOTS \div 4
       /\ Emulator_frame_ready(Cur) => hist.presented = hist.ready - 1

\* the last tick of scanline 153 under the NOP sled: frame_ready() has been
\* true after each of 114 ticks and the same frame was presented 114 times
C39_Repeated ==
    /\ last.op = "present"
    /\ err = NoErr
    /\ Emulator_frame_ready(Cur)
    /\ ret = 4
    /\ ppu.counter = SCANLINE_DOTS - 4
    /\ hist.ready = SCANLINE_DOTS \div 4
    /\ hist.presented = SCANLINE_DOTS \div 4

====
